---- MODULE Spec2Model ----
(***************************************************************************)
(* A model of kaybee's node engine (src/src/kaybee/core.py) and validator  *)
(* gatekeeper (src/src/kaybee/constraints.py).                             *)
(*                                                                         *)
(* Text is modelled as a sequence of one-character strings, so that        *)
(* slugify, _safe_ident, the wikilink regular expression and the JSON cell *)
(* encoding are computed character by character, as the code does.         *)
(* The SQLite connection's working state is the variable db: the node      *)
(* index (table nodes), the per-type data tables, the registered type set  *)
(* (table _types) and the link index (table _links).  A call that raises   *)
(* does not roll back: the statements it executed before raising stay in   *)
(* the connection's open transaction and are what later calls see.         *)
(*                                                                         *)
(* The changelog (table _changelog, KnowledgeGraph(changelog=...),         *)
(* changelog(), changelog_truncate()) is not part of core.py as it stands; *)
(* it is modelled after its description and tests/test_changelog.py.       *)
(***************************************************************************)
EXTENDS Integers, Sequences, FiniteSets, TLC

VARIABLES db, committed, validator, partial,
          changelog_enabled, _changelog, sqlite_sequence,
          remote, push, conn

vars == <<db, committed, validator, partial,
          changelog_enabled, _changelog, sqlite_sequence,
          remote, push, conn>>

\* the variables of the changelog
logvars == <<changelog_enabled, _changelog, sqlite_sequence>>

\* the variables of replication: the remote store as committed, the last
\* call of sync_push and its connection
syncvars == <<remote, push, conn>>

\* ------------------------------------------------------------------------
\* Characters and strings
\* ------------------------------------------------------------------------

\* SQL NULL / Python None; no character sequence equals it.
Null == <<"NULL">>

Lower == {"a", "b", "c", "d", "e", "f", "g", "h", "i", "j", "k", "l", "m",
          "n", "o", "p", "q", "r", "s", "t", "u", "v", "w", "x", "y", "z"}

Upper == {"A", "B", "C", "D"}

Digit == {"0", "1", "2", "3", "4", "5", "6", "7", "8", "9"}

Whitespace == {" "}

\* str.lower() on one character
ToLower(ch) ==
    CASE ch = "A" -> "a"
      [] ch = "B" -> "b"
      [] ch = "C" -> "c"
      [] ch = "D" -> "d"
      [] OTHER -> ch

\* str.isalnum() on one character
IsAlnum(ch) == ch \in Lower \cup Upper \cup Digit

RECURSIVE LStrip(_, _)
LStrip(s, chars) ==
    IF s = <<>> \/ Head(s) \notin chars THEN s ELSE LStrip(Tail(s), chars)

RECURSIVE RStrip(_, _)
RStrip(s, chars) ==
    IF s = <<>> \/ s[Len(s)] \notin chars THEN s
    ELSE RStrip(SubSeq(s, 1, Len(s) - 1), chars)

\* str.strip(chars)
Strip(s, chars) == RStrip(LStrip(s, chars), chars)

LowerStr(s) == [i \in 1..Len(s) |-> ToLower(s[i])]

\* the loop of slugify over text[i..], with the characters emitted so far
RECURSIVE SlugLoop(_, _, _, _)
SlugLoop(text, i, out, prev_sep) ==
    IF i > Len(text) THEN out
    ELSE IF IsAlnum(text[i]) \/ text[i] \in {"_", "."}
         THEN SlugLoop(text, i + 1, Append(out, text[i]), FALSE)
         ELSE IF ~prev_sep /\ out # <<>>
              THEN SlugLoop(text, i + 1, Append(out, "-"), TRUE)
              ELSE SlugLoop(text, i + 1, out, prev_sep)

ItemSlug == <<"i", "t", "e", "m">>

slugify(value) ==
    LET text   == LowerStr(Strip(value, Whitespace))
        result == Strip(SlugLoop(text, 1, <<>>, FALSE), {"-"})
    IN  IF result = <<>> THEN ItemSlug ELSE result

IdentChar == Lower \cup Upper \cup Digit \cup {"_"}

\* re.sub(r"[^a-zA-Z0-9_]", "_", name)
SafeIdent(name) ==
    [i \in 1..Len(name) |-> IF name[i] \in IdentChar THEN name[i] ELSE "_"]

\* the match of \[\[([^\]]+)\]\] starting at position i of text, if any:
\* the end of the maximal run of non-"]" characters after "[[" (0: no match)
RECURSIVE RunEnd(_, _)
RunEnd(text, j) ==
    IF j + 1 <= Len(text) /\ text[j + 1] # "]" THEN RunEnd(text, j + 1) ELSE j

MatchEnd(text, i) ==
    IF i + 1 <= Len(text) /\ text[i] = "[" /\ text[i + 1] = "["
    THEN LET j == RunEnd(text, i + 1)
         IN  IF j > i + 1 /\ j + 2 <= Len(text)
                /\ text[j + 1] = "]" /\ text[j + 2] = "]"
             THEN j ELSE 0
    ELSE 0

RECURSIVE FindAll(_, _)
FindAll(text, i) ==
    IF i > Len(text) THEN <<>>
    ELSE LET j == MatchEnd(text, i)
         IN  IF j = 0 THEN FindAll(text, i + 1)
             ELSE <<SubSeq(text, i + 2, j)>> \o FindAll(text, j + 3)

\* _WIKILINK_RE.findall(text): in order, duplicates kept
extract_wikilinks(text) == FindAll(text, 1)

\* ------------------------------------------------------------------------
\* Finite maps (dict, table rows)
\* ------------------------------------------------------------------------

EmptyFn == [x \in {} |-> Null]

Put(f, key, val) == [x \in (DOMAIN f) \cup {key} |-> IF x = key THEN val ELSE f[x]]

Del(f, key) == [x \in (DOMAIN f) \ {key} |-> f[x]]

\* the elements of a sequence
Range(s) == {s[i] : i \in 1..Len(s)}

RECURSIVE SelectKeys(_, _)
SelectKeys(keys, drop) ==
    IF keys = <<>> THEN <<>>
    ELSE IF Head(keys) \in drop THEN SelectKeys(Tail(keys), drop)
         ELSE <<Head(keys)>> \o SelectKeys(Tail(keys), drop)

\* ------------------------------------------------------------------------
\* Attribute values and maps.  A value is a string or a list of strings; a
\* meta dict is a sequence of <<key, value>> pairs in insertion order.
\* ------------------------------------------------------------------------

StrV(s) == [k |-> "str", v |-> s]

ListV(l) == [k |-> "list", v |-> l]

MetaKeys(meta) == [i \in 1..Len(meta) |-> meta[i][1]]

MetaHas(meta, key) == \E i \in 1..Len(meta) : meta[i][1] = key

MetaGet(meta, key) == meta[CHOOSE i \in 1..Len(meta) : meta[i][1] = key][2]

\* meta[key] = val
MetaSet(meta, key, val) ==
    IF MetaHas(meta, key)
    THEN [i \in 1..Len(meta) |-> IF meta[i][1] = key THEN <<key, val>> ELSE meta[i]]
    ELSE Append(meta, <<key, val>>)

\* bool(value): the empty string and the empty list are falsy
Truthy(val) == val.v # <<>>

kaybee == <<"k", "a", "y", "b", "e", "e">>

TypeKey == <<"t", "y", "p", "e">>

NameCol == <<"n", "a", "m", "e">>

ContentCol == <<"c", "o", "n", "t", "e", "n", "t">>

NodesTable == <<"n", "o", "d", "e", "s">>

TypesTable == <<"_", "t", "y", "p", "e", "s">>

LinksTable == <<"_", "l", "i", "n", "k", "s">>

_RESERVED_TYPE_NAMES == {NodesTable, TypesTable, LinksTable}

\* ------------------------------------------------------------------------
\* JSON cell encoding (lists of strings; the modelled inputs hold no quote
\* or backslash inside an item, and no JSON number or object in a cell)
\* ------------------------------------------------------------------------

RECURSIVE JoinItems(_)
JoinItems(l) ==
    IF l = <<>> THEN <<>>
    ELSE <<"\"">> \o Head(l) \o <<"\"">>
         \o (IF Len(l) > 1 THEN <<",", " ">> \o JoinItems(Tail(l)) ELSE <<>>)

\* json.dumps(list)
JsonDumps(l) == <<"[">> \o JoinItems(l) \o <<"]">>

RECURSIVE SkipWs(_, _)
SkipWs(t, i) == IF i <= Len(t) /\ t[i] \in Whitespace THEN SkipWs(t, i + 1) ELSE i

RECURSIVE QuoteEnd(_, _)
QuoteEnd(t, j) == IF j > Len(t) THEN 0 ELSE IF t[j] = "\"" THEN j ELSE QuoteEnd(t, j + 1)

\* the items of a JSON array whose opening bracket has been read, from t[i]
RECURSIVE ParseItems(_, _, _)
ParseItems(t, i, acc) ==
    LET p == SkipWs(t, i)
    IN  IF p > Len(t) THEN [ok |-> FALSE, items |-> <<>>]
        ELSE IF t[p] = "]" /\ acc = <<>>
             THEN [ok |-> SkipWs(t, p + 1) > Len(t), items |-> <<>>]
        ELSE IF t[p] # "\"" THEN [ok |-> FALSE, items |-> <<>>]
        ELSE LET q == QuoteEnd(t, p + 1)
                 r == SkipWs(t, q + 1)
             IN  IF q = 0 \/ r > Len(t) THEN [ok |-> FALSE, items |-> <<>>]
                 ELSE IF t[r] = "]"
                      THEN [ok |-> SkipWs(t, r + 1) > Len(t),
                            items |-> Append(acc, SubSeq(t, p + 1, q - 1))]
                 ELSE IF t[r] = ","
                      THEN ParseItems(t, r + 1, Append(acc, SubSeq(t, p + 1, q - 1)))
                 ELSE [ok |-> FALSE, items |-> <<>>]

\* json.loads(text) restricted to arrays: [ok, items]
JsonLoadsList(text) ==
    LET p == SkipWs(text, 1)
    IN  IF p <= Len(text) /\ text[p] = "["
        THEN ParseItems(text, p + 1, <<>>)
        ELSE [ok |-> FALSE, items |-> <<>>]

\* the cell written for an attribute value: json.dumps for a list, str otherwise
EncodeCell(val) == IF val.k = "list" THEN JsonDumps(val.v) ELSE val.v

\* the value read back from a cell: the decoded list when the text parses as
\* a JSON array, the raw string otherwise
DecodeCell(cell) ==
    LET parsed == JsonLoadsList(cell)
    IN  IF parsed.ok THEN ListV(parsed.items) ELSE StrV(cell)

\* ------------------------------------------------------------------------
\* Node text.  A text is [has_fm, fm, body]: has_fm tells whether the text
\* opens with a closed frontmatter fence, fm holds the key/value lines of
\* the header, body the text after the closing fence.
\* ------------------------------------------------------------------------

EmptyText == [has_fm |-> FALSE, fm |-> <<>>, body |-> <<>>]

RECURSIVE DictOf(_, _)
DictOf(pairs, acc) ==
    IF pairs = <<>> THEN acc
    ELSE DictOf(Tail(pairs), MetaSet(acc, Head(pairs)[1], Head(pairs)[2]))

\* parse_frontmatter(text) -> (meta, body)
parse_frontmatter(text) ==
    IF ~text.has_fm THEN [meta |-> <<>>, body |-> text.body]
    ELSE [meta |-> DictOf(text.fm, <<>>), body |-> text.body]


\* ------------------------------------------------------------------------
\* The store.  db.nodes is the node index (name -> type); db.tables maps a
\* table identifier to [cols, rows], cols the attribute columns in creation
\* order (name and content are implicit) and rows a map name -> [content,
\* cells] holding the non-NULL cells; db.types is table _types; db.links is
\* table _links, a set of rows [source, target, resolved, context].
\* A step of a handler returns [db, err]; err = "" when it did not raise.
\* ------------------------------------------------------------------------

Ok(d) == [db |-> d, err |-> ""]

Raise(d, e) == [db |-> d, err |-> e]

InitDb ==
    [nodes  |-> EmptyFn,
     tables |-> Put(EmptyFn, kaybee, [cols |-> <<>>, rows |-> EmptyFn]),
     types  |-> {},
     links  |-> {}]

\* KnowledgeGraph.exists
exists(d, name) == name \in DOMAIN d.nodes

\* the ALTER TABLE loop of _ensure_type_table: existing is the column set
\* read once before the loop, cols the table's columns as the loop adds them
RECURSIVE AddColumns(_, _, _)
AddColumns(cols, existing, keys) ==
    IF keys = <<>> THEN [cols |-> cols, err |-> ""]
    ELSE LET col == SafeIdent(Head(keys))
         IN  IF col \in existing THEN AddColumns(cols, existing, Tail(keys))
             ELSE IF col \in Range(cols)
                  THEN [cols |-> cols, err |-> "OperationalError"]
                  ELSE AddColumns(Append(cols, col), existing, Tail(keys))

\* the two guards at the head of _ensure_type_table
IsReserved(type_name) ==
    \/ type_name # kaybee /\ type_name \in _RESERVED_TYPE_NAMES
    \/ type_name = kaybee /\ SafeIdent(type_name) # kaybee

_ensure_type_table(d, type_name, keys) ==
    LET safe == SafeIdent(type_name)
    IN  IF IsReserved(type_name) THEN Raise(d, "ValueError")
        ELSE IF safe \in {NodesTable, TypesTable, LinksTable}
             \* CREATE TABLE IF NOT EXISTS finds the engine's own table
             THEN Ok(d)
        ELSE LET created == IF safe \in DOMAIN d.tables THEN d.tables
                            ELSE Put(d.tables, safe, [cols |-> <<>>, rows |-> EmptyFn])
                 existing == Range(created[safe].cols) \cup {NameCol, ContentCol}
                 added == AddColumns(created[safe].cols, existing, keys)
                 d1 == [d EXCEPT !.tables =
                          Put(created, safe, [created[safe] EXCEPT !.cols = added.cols])]
             IN  [db |-> d1, err |-> added.err]

\* the cells of the row INSERT OR REPLACE writes: of several keys that map to
\* one column the first supplies the value, and a key that maps to name or
\* content is shadowed by the row's own name and content
RowCells(keys, meta) ==
    LET colsOf == {SafeIdent(keys[i]) : i \in 1..Len(keys)} \ {NameCol, ContentCol}
        first(c) == CHOOSE i \in 1..Len(keys) :
                        /\ SafeIdent(keys[i]) = c
                        /\ \A j \in 1..(i - 1) : SafeIdent(keys[j]) # c
    IN  [c \in colsOf |-> EncodeCell(MetaGet(meta, keys[first(c)]))]

_upsert_type_row(d, type_name, name, content, meta) ==
    LET safe == SafeIdent(type_name)
        keys == SelectKeys(MetaKeys(meta), {TypeKey})
        e    == _ensure_type_table(d, type_name, keys)
    IN  IF e.err # "" THEN e
        ELSE IF safe \notin DOMAIN e.db.tables
             \* the engine's own tables have no name/content columns
             THEN Raise(e.db, "OperationalError")
        ELSE LET t   == e.db.tables[safe]
                 row == [content |-> content, cells |-> RowCells(keys, meta)]
             IN  Ok([e.db EXCEPT !.tables =
                        Put(e.db.tables, safe, [t EXCEPT !.rows = Put(t.rows, name, row)])])

\* A delete that leaves the data row in place.
DeleteNothing(d, type_name, name) == d

\* _delete_type_row / _delete_from_type_table: DELETE FROM <safe> WHERE name
\* = ?, a storage error (no such table, no such column) swallowed
_delete_from_type_table(d, type_name, name) ==
    LET safe == SafeIdent(type_name)
    IN  IF safe = NodesTable THEN [d EXCEPT !.nodes = Del(d.nodes, name)]
        ELSE IF safe \in DOMAIN d.tables
             THEN [d EXCEPT !.tables =
                     Put(d.tables, safe,
                         [d.tables[safe] EXCEPT !.rows = Del(d.tables[safe].rows, name)])]
        ELSE d

\* the meta read from a row: its non-NULL cells in column order, decoded
RECURSIVE CellsMeta(_, _)
CellsMeta(cols, cells) ==
    IF cols = <<>> THEN <<>>
    ELSE IF Head(cols) \in DOMAIN cells
         THEN <<<<Head(cols), DecodeCell(cells[Head(cols)])>>>> \o CellsMeta(Tail(cols), cells)
         ELSE CellsMeta(Tail(cols), cells)

\* _read_node_data(name) for an existing name -> (content, meta)
_read_node_data(d, name) ==
    LET type_name == d.nodes[name]
        safe      == SafeIdent(type_name)
        typed(m)  == IF type_name # kaybee THEN MetaSet(m, TypeKey, StrV(type_name)) ELSE m
    IN  IF safe \notin DOMAIN d.tables \/ name \notin DOMAIN d.tables[safe].rows
        THEN [content |-> <<>>, meta |-> typed(<<>>)]
        ELSE LET row == d.tables[safe].rows[name]
             IN  [content |-> row.content,
                  meta    |-> typed(CellsMeta(d.tables[safe].cols, row.cells))]

\* ------------------------------------------------------------------------
\* Link index
\* ------------------------------------------------------------------------

\* a resolver without the fuzzy step
ResolveExactOnly(d, name, fuzzy) ==
    IF name \in DOMAIN d.nodes THEN name ELSE Null

\* resolve_wikilink(name, fuzzy): exact match first, then the first index
\* row whose slug equals the target's slug
resolve_wikilink(d, name, fuzzy) ==
    IF name \in DOMAIN d.nodes THEN name
    ELSE IF ~fuzzy THEN Null
    ELSE LET target_slug == slugify(name)
             hits == {rname \in DOMAIN d.nodes : slugify(rname) = target_slug}
         IN  IF hits = {} THEN Null ELSE CHOOSE rname \in hits : TRUE

\* INSERT OR REPLACE INTO _links on the primary key (source, target)
LinkUpsert(links, row) ==
    {l \in links : ~(l.source = row.source /\ l.target = row.target)} \cup {row}

\* the loop of _sync_links over the extracted targets; bodies are one line,
\* so the context of every target is the stripped body
RECURSIVE SyncLoop(_, _, _, _)
SyncLoop(d, name, body, targets) ==
    IF targets = <<>> THEN d
    ELSE LET row == [source   |-> name,
                     target   |-> Head(targets),
                     resolved |-> resolve_wikilink(d, Head(targets), TRUE),
                     context  |-> Strip(body, Whitespace)]
         IN  SyncLoop([d EXCEPT !.links = LinkUpsert(d.links, row)],
                      name, body, Tail(targets))

_sync_links(d, name, body) ==
    SyncLoop([d EXCEPT !.links = {l \in d.links : l.source # name}],
             name, body, extract_wikilinks(body))

\* A re-resolution that points every selected row at the written node.
ReResolveToName(d, name) ==
    [d EXCEPT !.links =
        {IF l.resolved = Null \/ l.resolved = name
         THEN [l EXCEPT !.resolved = name]
         ELSE l : l \in d.links}]

\* _re_resolve_links_to(name): every row that is dangling or resolved to
\* name is resolved again against the current index
_re_resolve_links_to(d, name) ==
    [d EXCEPT !.links =
        {IF l.resolved = Null \/ l.resolved = name
         THEN [l EXCEPT !.resolved = resolve_wikilink(d, l.target, TRUE)]
         ELSE l : l \in d.links}]


\* ------------------------------------------------------------------------
\* Validator (constraints.py).  A rule is [filter, kind, structural, field,
\* allowed]: filter is a type name or Null, kind names the built-in check.
\* ------------------------------------------------------------------------

TagsKey == <<"t", "a", "g", "s">>

requires_field(type_name, field) ==
    [filter |-> type_name, kind |-> "requires_field", structural |-> TRUE,
     field |-> field, allowed |-> {}]

requires_tag(type_name) ==
    [filter |-> type_name, kind |-> "requires_tag", structural |-> TRUE,
     field |-> TagsKey, allowed |-> {}]

freeze_schema(type_name, allowed_fields) ==
    [filter |-> type_name, kind |-> "freeze_schema", structural |-> TRUE,
     field |-> Null, allowed |-> allowed_fields \cup {TypeKey}]

requires_link(type_name) ==
    [filter |-> type_name, kind |-> "requires_link", structural |-> FALSE,
     field |-> Null, allowed |-> {}]

\* the _check closure of a structural rule on (name, meta): TRUE when it
\* returns a violation
Violates(rule, name, meta) ==
    CASE rule.kind = "requires_field" ->
            ~MetaHas(meta, rule.field) \/ ~Truthy(MetaGet(meta, rule.field))
      [] rule.kind = "requires_tag" ->
            \/ ~MetaHas(meta, TagsKey)
            \/ MetaGet(meta, TagsKey).k # "list"
            \/ MetaGet(meta, TagsKey).v = <<>>
      [] rule.kind = "freeze_schema" ->
            Range(MetaKeys(meta)) \ rule.allowed # {}
      [] OTHER -> FALSE

\* meta.get("type") for a string-valued or absent type
ProposedType(meta) == IF MetaHas(meta, TypeKey) THEN MetaGet(meta, TypeKey).v ELSE Null

\* the rules whose check function validate_structural calls
Evaluated(rules, meta) ==
    {i \in 1..Len(rules) :
        /\ rules[i].structural
        /\ ~(rules[i].filter # Null /\ ProposedType(meta) # rules[i].filter)}

\* Validator.validate_structural(name, meta): the violating rules
validate_structural(rules, name, meta) ==
    {i \in Evaluated(rules, meta) : Violates(rules[i], name, meta)}

\* ------------------------------------------------------------------------
\* Node engine handlers.  Each returns [db, err, evaluated, commit]: the
\* connection state it leaves, the exception it raised ("" for none), the
\* validator rules it evaluated and whether it reached self._db.commit().
\* On a raise db holds whatever the handler executed before raising; nothing
\* rolls it back.  The attached validator is
\* [attached, rules]; attached = FALSE is self._validator = None.
\* ------------------------------------------------------------------------

Done(r, ev) == [db |-> r.db, err |-> r.err, evaluated |-> ev, commit |-> r.err = ""]

\* a return that executed no statement and no commit
NoOp(d) == [db |-> d, err |-> "", evaluated |-> {}, commit |-> FALSE]

\* meta.get("type") or "kaybee"
EffectiveType(meta) ==
    IF MetaHas(meta, TypeKey) /\ Truthy(MetaGet(meta, TypeKey))
    THEN MetaGet(meta, TypeKey).v ELSE kaybee

\* _write_node after the gatekeeper let the write through
WriteBody(d, name, meta, body) ==
    LET effective_type == EffectiveType(meta)
        old_type == IF name \in DOMAIN d.nodes THEN d.nodes[name] ELSE Null
        d1 == IF old_type # Null /\ old_type # <<>> /\ old_type # effective_type
              THEN _delete_from_type_table(d, old_type, name) ELSE d
        d2 == [d1 EXCEPT !.nodes = Put(d1.nodes, name, effective_type)]
        u  == _upsert_type_row(d2, effective_type, name, body, meta)
    IN  IF u.err # "" THEN u
        ELSE LET d3 == IF effective_type # kaybee
                       THEN [u.db EXCEPT !.types = @ \cup {effective_type}] ELSE u.db
                 d4 == _sync_links(d3, name, body)
             IN  Ok(_re_resolve_links_to(d4, name))

_write_node(d, val, name, content) ==
    LET p == parse_frontmatter(content)
    IN  IF val.attached /\ validate_structural(val.rules, name, p.meta) # {}
        THEN Done(Raise(d, "ValidationError"), Evaluated(val.rules, p.meta))
        ELSE Done(WriteBody(d, name, p.meta, p.body),
                  IF val.attached THEN Evaluated(val.rules, p.meta) ELSE {})

write(d, val, name, content) == _write_node(d, val, slugify(name), content)

\* a touch that writes the empty content over an existing node
TouchRewrites(d, val, raw, content) ==
    _write_node(d, val, slugify(raw), content)

touch(d, val, raw, content) ==
    LET name == slugify(raw)
    IN  IF exists(d, name)
        THEN IF content # EmptyText THEN write(d, val, name, content)
             ELSE NoOp(d)
        ELSE IF content # EmptyText THEN _write_node(d, val, name, content)
        ELSE LET kb == d.tables[kaybee]
                 rows == IF name \in DOMAIN kb.rows THEN kb.rows
                         ELSE Put(kb.rows, name, [content |-> <<>>, cells |-> EmptyFn])
             IN  Done(Ok([d EXCEPT !.nodes = Put(d.nodes, name, kaybee),
                                   !.tables = Put(d.tables, kaybee,
                                                  [kb EXCEPT !.rows = rows])]), {})

\* An rm that leaves the rows resolved to the removed node as they are.
RmKeepsIncoming(d, name) ==
    IF ~exists(d, name) THEN Done(Raise(d, "KeyError"), {})
    ELSE LET d1 == IF d.nodes[name] # <<>>
                   THEN _delete_from_type_table(d, d.nodes[name], name) ELSE d
             d2 == [d1 EXCEPT !.links = {x \in d1.links : x.source # name}]
         IN  Done(Ok([d2 EXCEPT !.nodes = Del(d2.nodes, name)]), {})

\* An rm that leaves the removed node's outgoing rows in the link index.
RmKeepsOutgoing(d, name) ==
    IF ~exists(d, name) THEN Done(Raise(d, "KeyError"), {})
    ELSE LET d1 == IF d.nodes[name] # <<>>
                   THEN _delete_from_type_table(d, d.nodes[name], name) ELSE d
             d2 == [d1 EXCEPT !.links =
                       {IF l.resolved = name THEN [l EXCEPT !.resolved = Null] ELSE l :
                            l \in d1.links}]
         IN  Done(Ok([d2 EXCEPT !.nodes = Del(d2.nodes, name)]), {})

rm(d, name) ==
    IF ~exists(d, name) THEN Done(Raise(d, "KeyError"), {})
    ELSE LET d1 == IF d.nodes[name] # <<>>
                   THEN _delete_from_type_table(d, d.nodes[name], name) ELSE d
             d2 == [d1 EXCEPT !.links =
                       {IF l.resolved = name THEN [l EXCEPT !.resolved = Null] ELSE l :
                            l \in {x \in d1.links : x.source # name}}]
         IN  Done(Ok([d2 EXCEPT !.nodes = Del(d2.nodes, name)]), {})

\* UPDATE _links SET source_name = new WHERE source_name = old fails on the
\* primary key when a row (new, target) already exists
RenameClash(links, old, new) ==
    \E l1 \in links, l2 \in links :
        l1.source = old /\ l2.source = new /\ l1.target = l2.target

\* An mv that renames the source column of the link index only.
MvKeepsResolved(d, old_name, raw_new) ==
    IF ~exists(d, old_name) THEN Done(Raise(d, "KeyError"), {})
    ELSE LET new_name == slugify(raw_new)
         IN  IF old_name = new_name THEN NoOp(d)
             ELSE IF exists(d, new_name) THEN Done(Raise(d, "FileExistsError"), {})
             ELSE LET data == _read_node_data(d, old_name)
                      type_name == d.nodes[old_name]
                      d1 == _delete_from_type_table(d, type_name, old_name)
                      d2 == [d1 EXCEPT !.nodes = Put(Del(d1.nodes, old_name),
                                                     new_name, type_name)]
                      u  == _upsert_type_row(d2, type_name, new_name,
                                             data.content, data.meta)
                  IN  IF u.err # "" THEN Done(u, {})
                      ELSE IF RenameClash(u.db.links, old_name, new_name)
                           THEN Done(Raise(u.db, "IntegrityError"), {})
                      ELSE Done(Ok([u.db EXCEPT !.links =
                              {[l EXCEPT
                                  !.source = IF @ = old_name THEN new_name ELSE @] :
                                     l \in u.db.links}]), {})

mv(d, old_name, raw_new) ==
    IF ~exists(d, old_name) THEN Done(Raise(d, "KeyError"), {})
    ELSE LET new_name == slugify(raw_new)
         IN  IF old_name = new_name THEN NoOp(d)
             ELSE IF exists(d, new_name) THEN Done(Raise(d, "FileExistsError"), {})
             ELSE LET data == _read_node_data(d, old_name)
                      type_name == d.nodes[old_name]
                      d1 == _delete_from_type_table(d, type_name, old_name)
                      d2 == [d1 EXCEPT !.nodes = Put(Del(d1.nodes, old_name),
                                                     new_name, type_name)]
                      u  == _upsert_type_row(d2, type_name, new_name,
                                             data.content, data.meta)
                  IN  IF u.err # "" THEN Done(u, {})
                      ELSE IF RenameClash(u.db.links, old_name, new_name)
                           THEN Done(Raise(u.db, "IntegrityError"), {})
                      ELSE Done(Ok([u.db EXCEPT !.links =
                              {[l EXCEPT
                                  !.source = IF @ = old_name THEN new_name ELSE @,
                                  !.resolved = IF @ = old_name THEN new_name ELSE @] :
                                     l \in u.db.links}]), {})

\* a copy that does not look whether the destination exists
CpOverwrites(d, src, raw_dst) ==
    IF ~exists(d, src) THEN Done(Raise(d, "KeyError"), {})
    ELSE LET dst == slugify(raw_dst)
         IN  IF src = dst THEN Done(Raise(d, "ValueError"), {})
             ELSE LET data == _read_node_data(d, src)
                      type_name == d.nodes[src]
                      d1 == [d EXCEPT !.nodes = Put(d.nodes, dst, type_name)]
                      u  == _upsert_type_row(d1, type_name, dst, data.content, data.meta)
                  IN  IF u.err # "" THEN Done(u, {})
                      ELSE Done(Ok(_sync_links(u.db, dst, data.content)), {})

cp(d, src, raw_dst) ==
    IF ~exists(d, src) THEN Done(Raise(d, "KeyError"), {})
    ELSE LET dst == slugify(raw_dst)
         IN  IF src = dst THEN Done(Raise(d, "ValueError"), {})
             ELSE IF exists(d, dst) THEN Done(Raise(d, "FileExistsError"), {})
             ELSE LET data == _read_node_data(d, src)
                      type_name == d.nodes[src]
                      d1 == [d EXCEPT !.nodes = Put(d.nodes, dst, type_name)]
                      u  == _upsert_type_row(d1, type_name, dst, data.content, data.meta)
                  IN  IF u.err # "" THEN Done(u, {})
                      ELSE Done(Ok(_sync_links(u.db, dst, data.content)), {})

LinkTargetKey == <<"l", "i", "n", "k", "_", "t", "a", "r", "g", "e", "t">>

\* an ln that takes the destination name as it is given
LnStoresRaw(d, source, raw_dest) ==
    LET dest == raw_dest
    IN  IF exists(d, dest) THEN Done(Raise(d, "FileExistsError"), {})
        ELSE LET d1 == [d EXCEPT !.nodes = Put(d.nodes, dest, kaybee)]
                 e  == _ensure_type_table(d1, kaybee, <<LinkTargetKey>>)
             IN  IF e.err # "" THEN Done(e, {})
                 ELSE Done(_upsert_type_row(e.db, kaybee, dest, <<>>,
                                            <<<<LinkTargetKey, StrV(source)>>>>), {})

ln(d, source, raw_dest) ==
    LET dest == slugify(raw_dest)
    IN  IF exists(d, dest) THEN Done(Raise(d, "FileExistsError"), {})
        ELSE LET d1 == [d EXCEPT !.nodes = Put(d.nodes, dest, kaybee)]
                 e  == _ensure_type_table(d1, kaybee, <<LinkTargetKey>>)
             IN  IF e.err # "" THEN Done(e, {})
                 ELSE Done(_upsert_type_row(e.db, kaybee, dest, <<>>,
                                            <<<<LinkTargetKey, StrV(source)>>>>), {})

\* backlinks(name): the sources of the link rows resolved to name, one per
\* row, then the rows of table kaybee whose link_target is name and whose
\* name is not yet listed; the result maps each name to the number of times
\* the list holds it
backlinks(d, name) ==
    LET rows    == {l \in d.links : l.resolved = name}
        results == [n \in {l.source : l \in rows} |->
                       Cardinality({l \in rows : l.source = n})]
        t       == d.tables[kaybee]
        sym     == IF LinkTargetKey \in Range(t.cols)
                   THEN {n \in DOMAIN t.rows :
                            /\ LinkTargetKey \in DOMAIN t.rows[n].cells
                            /\ t.rows[n].cells[LinkTargetKey] = name}
                   ELSE {}
    IN  [n \in (DOMAIN results) \cup sym |->
            IF n \in DOMAIN results THEN results[n] ELSE 1]

add_type(d, type_name) == Done(Ok([d EXCEPT !.types = @ \cup {type_name}]), {})

\* a remove_type that does not count the nodes of the type
RemoveTypeUnchecked(d, type_name) ==
    Done(Ok([d EXCEPT !.types = @ \ {type_name}]), {})

remove_type(d, type_name) ==
    IF \E n \in DOMAIN d.nodes : d.nodes[n] = type_name
    THEN Done(Raise(d, "ValueError"), {})
    ELSE Done(Ok([d EXCEPT !.types = @ \ {type_name}]), {})


\* ------------------------------------------------------------------------
\* Reading back: cat / read(name, 0) renders the stored meta and body as
\* text (_reconstruct), and a reader parses that text again.  The fence and
\* the "key: value" line structure are kept as pairs; each value is rendered
\* to characters and parsed from them.
\* ------------------------------------------------------------------------

RECURSIVE JoinPlain(_)
JoinPlain(l) ==
    IF l = <<>> THEN <<>>
    ELSE Head(l) \o (IF Len(l) > 1 THEN <<",", " ">> \o JoinPlain(Tail(l)) ELSE <<>>)

\* the text _reconstruct puts after "key: "
RenderValue(val) ==
    IF val.k = "list" THEN <<"[">> \o JoinPlain(val.v) \o <<"]">> ELSE val.v

Quotes == {"\"", "'"}

_unquote(val) ==
    IF Len(val) >= 2 /\ val[1] \in Quotes /\ val[Len(val)] = val[1]
    THEN SubSeq(val, 2, Len(val) - 1) ELSE val

\* the loop of _split_yaml_list over s[i..]; in_quote is "" outside quotes
RECURSIVE SplitLoop(_, _, _, _, _)
SplitLoop(s, i, current, in_quote, items) ==
    IF i > Len(s)
    THEN IF current # <<>> THEN Append(items, Strip(current, Whitespace)) ELSE items
    ELSE IF in_quote # ""
         THEN SplitLoop(s, i + 1, Append(current, s[i]),
                        IF s[i] = in_quote THEN "" ELSE in_quote, items)
    ELSE IF s[i] \in Quotes
         THEN SplitLoop(s, i + 1, Append(current, s[i]), s[i], items)
    ELSE IF s[i] = ","
         THEN SplitLoop(s, i + 1, <<>>, "", Append(items, Strip(current, Whitespace)))
    ELSE SplitLoop(s, i + 1, Append(current, s[i]), "", items)

_split_yaml_list(s) == SplitLoop(s, 1, <<>>, "", <<>>)

_parse_yaml_value(val) ==
    IF Len(val) >= 1 /\ val[1] = "[" /\ val[Len(val)] = "]"
    THEN LET inner == Strip(SubSeq(val, 2, Len(val) - 1), Whitespace)
             parts == _split_yaml_list(inner)
         IN  IF inner = <<>> THEN ListV(<<>>)
             ELSE ListV([i \in 1..Len(parts) |-> _unquote(Strip(parts[i], Whitespace))])
    ELSE StrV(_unquote(val))

\* KnowledgeGraph.cat(name) as the text a reader parses: no fence when the
\* meta is empty, else one "key: value" line per key; a line whose value is
\* empty parses to the empty string
cat(d, name) ==
    LET data == _read_node_data(d, name)
    IN  [has_fm |-> data.meta # <<>>,
         fm |-> [i \in 1..Len(data.meta) |->
                   LET rest == Strip(RenderValue(data.meta[i][2]), Whitespace)
                   IN  <<data.meta[i][1],
                         IF rest = <<>> THEN StrV(<<>>) ELSE _parse_yaml_value(rest)>>],
         body |-> LStrip(data.content, {"\n"})]

\* KnowledgeGraph.read(name, depth) for depth <= 0
read(d, name) == cat(d, name)

\* the order of Python's str comparison on the characters of a slug
CharOrder ==
    <<"-", ".", "0", "1", "2", "3", "4", "5", "6", "7", "8", "9", "_",
      "a", "b", "c", "d", "e", "f", "g", "h", "i", "j", "k", "l", "m",
      "n", "o", "p", "q", "r", "s", "t", "u", "v", "w", "x", "y", "z">>

CharRank(ch) ==
    IF \E i \in DOMAIN CharOrder : CharOrder[i] = ch
    THEN CHOOSE i \in DOMAIN CharOrder : CharOrder[i] = ch ELSE 0

RECURSIVE StrLess(_, _)
StrLess(s, t) ==
    IF t = <<>> THEN FALSE
    ELSE IF s = <<>> THEN TRUE
    ELSE IF Head(s) = Head(t) THEN StrLess(Tail(s), Tail(t))
    ELSE CharRank(Head(s)) < CharRank(Head(t))

\* sorted(set(...)) of node names
RECURSIVE Sorted(_)
Sorted(S) ==
    IF S = {} THEN <<>>
    ELSE LET m == CHOOSE x \in S : \A y \in S : x = y \/ StrLess(x, y)
         IN  <<m>> \o Sorted(S \ {m})

\* SELECT target_resolved FROM _links WHERE source_name = ? AND
\* target_resolved IS NOT NULL, sorted
SortedTargets(d, name) ==
    Sorted({l.resolved : l \in {x \in d.links : x.source = name /\ x.resolved # Null}})

Section(d, name, is_root) ==
    [name |-> name, delimited |-> ~is_root, text |-> cat(d, name)]

Visit(visited, sections) == [visited |-> visited, sections |-> sections]

\* a reader that does not look at the visited set
RECURSIVE ReadUnguarded(_, _, _, _, _, _)
RECURSIVE ReadUnguardedLoop(_, _, _, _, _)
ReadUnguarded(d, name, depth, visited, sections, is_root) ==
    LET s1 == Append(sections, Section(d, name, is_root))
    IN  IF depth <= 0 THEN Visit(visited \cup {name}, s1)
        ELSE ReadUnguardedLoop(d, SortedTargets(d, name), depth, visited \cup {name}, s1)

ReadUnguardedLoop(d, targets, depth, visited, sections) ==
    IF targets = <<>> THEN Visit(visited, sections)
    ELSE LET st == IF exists(d, Head(targets))
                   THEN ReadUnguarded(d, Head(targets), depth - 1, visited, sections, FALSE)
                   ELSE Visit(visited, sections)
         IN  ReadUnguardedLoop(d, Tail(targets), depth, st.visited, st.sections)

\* KnowledgeGraph._read_recursive: the visited set and the sections after
\* the call; a section is the node's name, whether it is preceded by the
\* marker "--- [[name]] ---", and the text of cat(name)
RECURSIVE _read_recursive(_, _, _, _, _, _)
RECURSIVE ReadLoop(_, _, _, _, _)
_read_recursive(d, name, depth, visited, sections, is_root) ==
    IF name \in visited THEN Visit(visited, sections)
    ELSE LET s1 == Append(sections, Section(d, name, is_root))
         IN  IF depth <= 0 THEN Visit(visited \cup {name}, s1)
             ELSE ReadLoop(d, SortedTargets(d, name), depth, visited \cup {name}, s1)

\* for target in targets: if target not in visited and self.exists(target)
ReadLoop(d, targets, depth, visited, sections) ==
    IF targets = <<>> THEN Visit(visited, sections)
    ELSE LET st == IF Head(targets) \notin visited /\ exists(d, Head(targets))
                   THEN _read_recursive(d, Head(targets), depth - 1,
                                        visited, sections, FALSE)
                   ELSE Visit(visited, sections)
         IN  ReadLoop(d, Tail(targets), depth, st.visited, st.sections)

\* KnowledgeGraph.read(name, depth) for depth > 0: the sections joined
ReadSections(d, name, depth) ==
    _read_recursive(d, name, depth, {}, <<>>, TRUE).sections


\* ------------------------------------------------------------------------
\* Inputs
\* ------------------------------------------------------------------------

\* the most index rows a run may hold
MaxNodes == 2

\* the most calls of a run that raise after executing a statement
MaxPartial == 1

\* the most changelog entries a run with the changelog enabled may issue
MaxSeq == 3

\* the most index rows of a run that builds a link graph, and the largest
\* depth it is read with
MaxReadNodes == 4
MaxDepth == 3

concept == <<"c", "o", "n", "c", "e", "p", "t">>

DescKey == <<"d", "e", "s", "c">>

\* "[[" target "]]"
Wl(target) == <<"[", "[">> \o target \o <<"]", "]">>

\* names as callers pass them to write, touch and as a destination:
\* slugify maps "B" to "b" and "A b" to "a-b"
RawNames == {<<"a">>, <<"B">>, <<"A", " ", "b">>}

\* names as callers pass them to rm and as the source of mv and cp, which
\* look them up as given
Names == {<<"a">>, <<"b">>, <<"a", "-", "b">>}

\* the source names given to ln
LnSources == {<<"a">>}

Plain(body) == [has_fm |-> FALSE, fm |-> <<>>, body |-> body]

WithFm(fm, body) == [has_fm |-> TRUE, fm |-> fm, body |-> body]

\* untyped: an exact link, a link that needs the fuzzy step, a repeated link
TextLinks == Plain(Wl(<<"b">>) \o <<" ">> \o Wl(<<"B">>) \o <<" ">> \o Wl(<<"b">>))

\* a concept with a description, a tag list and a link to a
TextConcept ==
    WithFm(<< <<TypeKey, StrV(concept)>>, <<DescKey, StrV(<<"d">>)>>,
              <<TagsKey, ListV(<< <<"x">> >>)>> >>,
           Wl(<<"a">>))

\* the implicit type spelled out
TextKaybee ==
    WithFm(<< <<TypeKey, StrV(kaybee)>> >>,
           Wl(<<"b">>) \o <<" ">> \o Wl(<<"B">>) \o <<" ">> \o Wl(<<"b">>))

\* a reserved type name
TextReserved == WithFm(<< <<TypeKey, StrV(NodesTable)>> >>, Wl(<<"a">>))

Texts == {TextLinks, TextConcept, TextKaybee, TextReserved}

\* the contents given to touch: none, one the gatekeeper lets through and
\* one it vetoes
TouchTexts == {EmptyText, TextLinks, TextKaybee}

\* a concept with a key that is no SQL identifier
TextHyphen ==
    WithFm(<< <<TypeKey, StrV(concept)>>, <<<<"a", "-", "b">>, StrV(<<"v">>)>> >>,
           <<"x">>)

\* an untyped node whose description is the string ["x"]
TextJsonish ==
    WithFm(<< <<DescKey, StrV(<<"[", "\"", "x", "\"", "]">>)>> >>, <<"x">>)

\* a tag list with a comma inside an item: tags: ["x, y", z]
TextCommaList ==
    WithFm(<< <<TagsKey, ListV(<< <<"x", ",", " ", "y">>, <<"z">> >>)>> >>, <<"x">>)

\* the texts written and read back
RoundTexts == {TextLinks, TextConcept, TextHyphen, TextJsonish, TextCommaList}

TypeNames == {concept}

NoValidator == [attached |-> FALSE, rules |-> <<>>]

\* Validator().add(requires_field("concept", "desc"))
\*            .add(requires_link("concept"))
\*            .add(requires_field("kaybee", "desc"))
\*            .add(freeze_schema(None, ["desc", "tags"]))
TheValidator ==
    [attached |-> TRUE,
     rules |-> <<requires_field(concept, DescKey), requires_link(concept),
                 requires_field(kaybee, DescKey),
                 freeze_schema(Null, {DescKey, TagsKey})>>]

Validators == {TheValidator}

\* ------------------------------------------------------------------------
\* Changelog: the rows (seq, op, name, data) of table _changelog in
\* insertion order; sqlite_sequence is the largest seq the table ever issued.
\* ------------------------------------------------------------------------

Min(a, b) == IF a < b THEN a ELSE b

\* payload of an entry that carries none (type.add, type.rm)
NoData == [old_name |-> Null]

\* payload of node.write and node.cp: the type, body and attributes of the
\* node as the call left it
NodeData(d, name) ==
    IF name \notin DOMAIN d.nodes THEN NoData
    ELSE [type    |-> d.nodes[name],
          content |-> _read_node_data(d, name).content,
          meta    |-> _read_node_data(d, name).meta]

\* payload of node.rm: the type the node had
RmData(d, name) ==
    IF name \notin DOMAIN d.nodes THEN NoData ELSE [type |-> d.nodes[name]]

\* payload of node.mv: the node under its new name, and the old name
MvData(d, old_name, name) ==
    IF name \notin DOMAIN d.nodes THEN NoData
    ELSE [old_name |-> old_name,
          type     |-> d.nodes[name],
          content  |-> _read_node_data(d, name).content,
          meta     |-> _read_node_data(d, name).meta]

Entry(seq, op, name, data) ==
    [seq |-> seq, op |-> op, name |-> name, data |-> data]

\* an insert that numbers the new row one above the rows the table holds
LogAboveRows(log, issued, op, name, data) ==
    Append(log, Entry(IF log = <<>> THEN 1 ELSE log[Len(log)].seq + 1,
                      op, name, data))

\* an insert into a table whose key is AUTOINCREMENT
_log(log, issued, op, name, data) ==
    Append(log, Entry(issued + 1, op, name, data))

\* a query that starts at since_seq itself
ChangelogFrom(enabled, log, since_seq, limit) ==
    IF ~enabled THEN <<>>
    ELSE LET after == SelectSeq(log, LAMBDA e : e.seq >= since_seq)
         IN  SubSeq(after, 1, Min(limit, Len(after)))

\* KnowledgeGraph.changelog(since_seq, limit)
changelog(enabled, log, since_seq, limit) ==
    IF ~enabled THEN <<>>
    ELSE LET after == SelectSeq(log, LAMBDA e : e.seq > since_seq)
         IN  SubSeq(after, 1, Min(limit, Len(after)))

\* KnowledgeGraph.changelog_truncate(before_seq): the rows left
changelog_truncate(enabled, log, before_seq) ==
    IF ~enabled THEN log
    ELSE SelectSeq(log, LAMBDA e : e.seq >= before_seq)

\* ------------------------------------------------------------------------
\* Replication (sync.py).  remote is the MySQL database: for each table its
\* columns, the columns of its UNIQUE key and its rows, a bag of rows that
\* map each column to a text or NULL.  A scope maps each scope column to its
\* value.  Every operator returns the remote store it leaves and the number
\* of INSERT, DELETE, CREATE TABLE and ALTER TABLE statements it executed;
\* the per-push column cache answers what the probes it replaces would
\* answer and has no part in the result.
\* ------------------------------------------------------------------------

team_id == <<"t", "e", "a", "m", "_", "i", "d">>

eng == <<"e", "n", "g">>

sales == <<"s", "a", "l", "e", "s">>

\* scope={"team_id": team}
Scope(team) == Put(EmptyFn, team_id, team)

Scopes == {Scope(eng), Scope(sales)}

user_id == <<"u", "s", "e", "r", "_", "i", "d">>

\* scope={"team_id": "sales", "user_id": "u"}
ScopeUser == Put(Scope(sales), user_id, <<"u">>)

\* the batch size sync_push asks of the changelog
BatchLimit == 2

EmptyRemote == EmptyFn

\* one more copy of row in a bag of rows
BagAdd(B, row) ==
    IF row \in DOMAIN B THEN [B EXCEPT ![row] = @ + 1] ELSE Put(B, row, 1)

\* the bag without the rows of gone
BagDrop(B, gone) == [row \in (DOMAIN B) \ gone |-> B[row]]

RECURSIVE BagCount(_, _)
BagCount(B, S) ==
    IF S = {} THEN 0
    ELSE LET row == CHOOSE x \in S : TRUE
         IN  B[row] + BagCount(B, S \ {row})

\* the bag with every row replaced by its image
BagMap(B, F(_)) ==
    [image \in {F(row) : row \in DOMAIN B} |->
        BagCount(B, {row \in DOMAIN B : F(row) = image})]

Did(R, n) == [remote |-> R, stmts |-> n]

\* a table created without a UNIQUE key
EnsureWithoutKey(R, table, columns, scope_keys, unique_on) ==
    LET all_cols == scope_keys \cup columns
    IN  IF table \notin DOMAIN R
        THEN Did(Put(R, table, [cols |-> all_cols, unique |-> {}, rows |-> EmptyFn]), 1)
        ELSE LET t == R[table]
                 missing == all_cols \ t.cols
                 widen(row) == [c \in t.cols \cup missing |->
                                   IF c \in t.cols THEN row[c] ELSE Null]
             IN  Did(Put(R, table, [t EXCEPT !.cols = @ \cup missing,
                                             !.rows = BagMap(@, widen)]),
                     Cardinality(missing))

\* CREATE TABLE with UNIQUE (unique_on) when the table is missing, else one
\* ALTER TABLE ADD COLUMN for each column the table lacks
_ensure_mysql_table(R, table, columns, scope_keys, unique_on) ==
    LET all_cols == scope_keys \cup columns
    IN  IF table \notin DOMAIN R
        THEN Did(Put(R, table, [cols |-> all_cols, unique |-> unique_on,
                                rows |-> EmptyFn]), 1)
        ELSE LET t == R[table]
                 missing == all_cols \ t.cols
                 widen(row) == [c \in t.cols \cup missing |->
                                   IF c \in t.cols THEN row[c] ELSE Null]
             IN  Did(Put(R, table, [t EXCEPT !.cols = @ \cup missing,
                                             !.rows = BagMap(@, widen)]),
                     Cardinality(missing))

\* the columns of the row _upsert_to_mysql writes besides the scope columns
LocalCols(meta) ==
    {NameCol, ContentCol} \cup Range(SelectKeys(MetaKeys(meta), {TypeKey}))

\* the _ensure_mysql_table call of _upsert_to_mysql
EnsureFor(R, table, meta, scope) ==
    _ensure_mysql_table(R, table, LocalCols(meta), DOMAIN scope,
                        {NameCol} \cup DOMAIN scope)

\* INSERT ... ON DUPLICATE KEY UPDATE: a row that agrees with the new one on
\* a non-empty UNIQUE key of the table takes the new values of the columns
\* the statement lists outside unique_on and keeps its other columns;
\* without such a row the new row is inserted, NULL in the columns the
\* statement does not list.  content is always listed, so the INSERT IGNORE
\* branch is never taken.
_upsert_to_mysql(R, table, name, content, meta, scope) ==
    LET scope_keys == DOMAIN scope
        unique_on  == {NameCol} \cup scope_keys
        e    == EnsureFor(R, table, meta, scope)
        t    == e.remote[table]
        all_cols == scope_keys \cup LocalCols(meta)
        new  == [c \in t.cols |->
                    IF c \in scope_keys THEN scope[c]
                    ELSE IF c = NameCol THEN name
                    ELSE IF c = ContentCol THEN content
                    ELSE IF c \in all_cols THEN EncodeCell(MetaGet(meta, c))
                    ELSE Null]
        dup  == {row \in DOMAIN t.rows :
                    /\ t.unique # {}
                    /\ \A u \in t.unique : row[u] # Null /\ row[u] = new[u]}
        upd(row) == IF row \notin dup THEN row
                    ELSE [c \in t.cols |->
                            IF c \in all_cols \ unique_on THEN new[c] ELSE row[c]]
        rows == IF dup = {} THEN BagAdd(t.rows, new) ELSE BagMap(t.rows, upd)
    IN  Did(Put(e.remote, table, [t EXCEPT !.rows = rows]), e.stmts + 1)

\* the rows of a table whose scope columns hold the scope's values
Scoped(t, scope) ==
    {row \in DOMAIN t.rows : \A k \in DOMAIN scope : k \in t.cols /\ row[k] = scope[k]}

\* a delete by name alone
DeleteAnyScope(R, table, name, scope) ==
    IF table \notin DOMAIN R THEN Did(R, 0)
    ELSE LET t == R[table]
         IN  Did(Put(R, table, [t EXCEPT !.rows =
                        BagDrop(@, {row \in DOMAIN t.rows : row[NameCol] = name})]), 1)

\* DELETE FROM table WHERE name = ? AND <each scope column> = ?, skipped
\* when the table does not exist
_delete_from_mysql(R, table, name, scope) ==
    IF table \notin DOMAIN R THEN Did(R, 0)
    ELSE LET t == R[table]
         IN  Did(Put(R, table, [t EXCEPT !.rows =
                        BagDrop(@, {row \in Scoped(t, scope) : row[NameCol] = name})]), 1)

\* data.get(key, default)
DataGet(data, key, default) == IF key \in DOMAIN data THEN data[key] ELSE default

\* one group of statements after another
Then(first, second) == Did(second.remote, first.stmts + second.stmts)

\* the branch of sync_push's loop body for one changelog entry
ApplyEntry(R, e, scope) ==
    LET type_name == DataGet(e.data, "type", kaybee)
        content   == DataGet(e.data, "content", <<>>)
        meta      == DataGet(e.data, "meta", <<>>)
    IN  CASE e.op \in {"node.write", "node.cp"} ->
               _upsert_to_mysql(R, type_name, e.name, content, meta, scope)
          [] e.op = "node.rm" ->
               _delete_from_mysql(R, type_name, e.name, scope)
          [] e.op = "node.mv" ->
               LET del == _delete_from_mysql(R, type_name,
                                             DataGet(e.data, "old_name", <<>>), scope)
               IN  Then(del, _upsert_to_mysql(del.remote, type_name, e.name,
                                              content, meta, scope))
          [] e.op = "node.type_change" ->
               LET del == _delete_from_mysql(R, DataGet(e.data, "old_type", kaybee),
                                             e.name, scope)
               IN  Then(del, _upsert_to_mysql(del.remote, type_name, e.name,
                                              content, meta, scope))
          [] e.op = "type.add" ->
               _ensure_mysql_table(R, e.name, {NameCol, ContentCol}, DOMAIN scope,
                                   {NameCol} \cup DOMAIN scope)
          [] OTHER -> Did(R, 0)

\* the remote stores an entry leaves when the adapter raises after its
\* first statement and before its last
MidEntry(R, e, scope) ==
    LET type_name == DataGet(e.data, "type", kaybee)
        meta      == DataGet(e.data, "meta", <<>>)
    IN  CASE e.op \in {"node.write", "node.cp"} ->
               {EnsureFor(R, type_name, meta, scope).remote}
          [] e.op = "node.mv" ->
               LET del == _delete_from_mysql(R, type_name,
                                             DataGet(e.data, "old_name", <<>>), scope)
               IN  {del.remote, EnsureFor(del.remote, type_name, meta, scope).remote}
          [] OTHER -> {}

\* a call that starts its loop at the beginning of the changelog whatever
\* since_seq it was given
PushingFromStart(scope, since_seq) ==
    [pc |-> "fetch", scope |-> scope, since_seq |-> since_seq,
     last_seq |-> 0, batch |-> <<>>, applied |-> <<>>]

\* a call of sync_push: where it stands (fetch: at the head of the while
\* loop, apply: in the for loop), the scope and since_seq it was called
\* with, last_seq, the entries of the batch still to apply, and the seqs
\* it applied in the order it applied them
\* cursor = mysql_conn.cursor(); cache = {}; last_seq = since_seq
Pushing(scope, since_seq) ==
    [pc |-> "fetch", scope |-> scope, since_seq |-> since_seq,
     last_seq |-> since_seq, batch |-> <<>>, applied |-> <<>>]

\* the connection of a call: the remote store as the connection sees it,
\* the statements executed on it, and the commits issued on it
Connected(R) == [remote |-> R, stmts |-> 0, commits |-> 0]

\* mysql_conn.commit()
Commit(k) == [k EXCEPT !.commits = @ + 1]

\* a call and its connection
Run(p, k) == [push |-> p, conn |-> k]

\* a push that asks the changelog for one batch and takes it for all
FetchOnce(log, p) ==
    IF p.applied # <<>> THEN <<>>
    ELSE changelog(TRUE, log, p.last_seq, BatchLimit)

\* entries = kg.changelog(since_seq=last_seq, limit=10_000)
Fetch(log, p) == changelog(TRUE, log, p.last_seq, BatchLimit)

\* last_seq = seq, at the end of one turn of the for loop
Advance(p, e) ==
    [p EXCEPT !.applied = Append(@, e.seq), !.last_seq = e.seq]

\* a turn of the for loop that commits what it executed
ExecuteCommits(k, e, scope) ==
    LET a == ApplyEntry(k.remote, e, scope)
    IN  Commit([k EXCEPT !.remote = a.remote, !.stmts = @ + a.stmts])

\* the statements of one turn of the for loop
Execute(k, e, scope) ==
    LET a == ApplyEntry(k.remote, e, scope)
    IN  [k EXCEPT !.remote = a.remote, !.stmts = @ + a.stmts]

\* the for loop over the entries of a batch
RECURSIVE ApplyBatch(_, _)
ApplyBatch(run, entries) ==
    IF entries = <<>> THEN run
    ELSE ApplyBatch(Run(Advance(run.push, Head(entries)),
                        Execute(run.conn, Head(entries), run.push.scope)),
                    Tail(entries))

\* the while loop of sync_push, run to its break
RECURSIVE Drain(_, _)
Drain(log, run) ==
    IF Fetch(log, run.push) = <<>> THEN run
    ELSE Drain(log, ApplyBatch(run, Fetch(log, run.push)))

\* the loop of _sync_push_full over kg.ls("*")
RECURSIVE FullLoop(_, _, _, _)
FullLoop(d, k, scope, names) ==
    IF names = <<>> THEN k
    ELSE LET name == Head(names)
             data == _read_node_data(d, name)
             a == _upsert_to_mysql(k.remote, d.nodes[name], name,
                                   data.content, data.meta, scope)
         IN  FullLoop(d, [k EXCEPT !.remote = a.remote, !.stmts = @ + a.stmts],
                      scope, Tail(names))

\* _sync_push_full: upsert every node, commit, return 0
_sync_push_full(d, R, scope) ==
    Run(Pushing(scope, 0),
        Commit(FullLoop(d, Connected(R), scope, Sorted(DOMAIN d.nodes))))

\* sync_push(kg, mysql_conn, scope, since_seq=since_seq) run to its return:
\* .conn.remote is the store it commits, .push.last_seq the value it returns
sync_push(d, enabled, log, R, scope, since_seq) ==
    IF ~enabled THEN _sync_push_full(d, R, scope)
    ELSE LET run == Drain(log, Run(Pushing(scope, since_seq), Connected(R)))
         IN  Run(run.push, Commit(run.conn))

\* the remote stores a push from since_seq leaves when the adapter raises
\* part-way: after any entries of the log above since_seq but the last, or
\* between two statements of the entry that follows them
PartWay(log, R, scope, since_seq) ==
    LET entries == SelectSeq(log, LAMBDA e : e.seq > since_seq)
        After(k) == ApplyBatch(Run(Pushing(scope, since_seq), Connected(R)),
                               SubSeq(entries, 1, k)).conn.remote
    IN  UNION {{After(k)} \cup MidEntry(After(k), entries[k + 1], scope) :
                  k \in 0..(Len(entries) - 1)}

\* a store in single mode, as sync_pull writes to it: the columns of _data,
\* its rows by name, the rows of _type_fields, and the index nodes
FreshSingle ==
    [cols |-> {NameCol, ContentCol}, data |-> EmptyFn,
     type_fields |-> {}, nodes |-> EmptyFn]

\* a store handle as sync.py uses it: the tables of the store, whether it
\* keeps a changelog, and the changelog
Handle(L, enabled, log) == [local |-> L, enabled |-> enabled, log |-> log]

Pulled(kg, n) == [kg |-> kg, total |-> n]

\* a raw statement that is logged as the engine logs a write
QueryLogs(kg, L, name) ==
    [kg EXCEPT !.local = L,
               !.log = IF kg.enabled
                       THEN LogAboveRows(kg.log, 0, "node.write", name, NoData)
                       ELSE kg.log]

\* KnowledgeGraph.query(sql, params): the statement is executed on the
\* connection, which leaves the tables as L; nothing else is done.  name
\* is the node the statement writes.
query(kg, L, name) == [kg EXCEPT !.local = L]

\* _get_mysql_tables: the tables that have every scope column and name
_get_mysql_tables(R, scope_keys) ==
    {table \in DOMAIN R : scope_keys \subseteq R[table].cols /\ NameCol \in R[table].cols}

\* the orders in which information_schema can list the tables
TableOrders(tables) ==
    {order \in [1..Cardinality(tables) -> tables] :
        \A i, j \in 1..Cardinality(tables) : order[i] = order[j] => i = j}

\* the tables of the store after the statements of one turn of sync_pull's
\* loop for the rows named names: SELECT * ... WHERE the scope columns hold
\* the scope's values; the scope columns stripped; ALTER TABLE _data for the
\* columns it lacks; the columns registered in _type_fields unless the table
\* is kaybee; INSERT OR REPLACE INTO _data with the table's columns, NULL in
\* the others; an index row for the names that have none
PullRows(L, R, type_name, scope, names) ==
    LET t          == R[type_name]
        rows       == Scoped(t, scope)
        local_cols == t.cols \ DOMAIN scope
        cols       == L.cols \cup local_cols
        RowOf(n)   == CHOOSE row \in rows : row[NameCol] = n
    IN  [cols |-> cols,
         data |-> [n \in (DOMAIN L.data) \cup names |->
                      [c \in cols |->
                          IF n \in names
                          THEN IF c \in local_cols THEN RowOf(n)[c] ELSE Null
                          ELSE IF c \in L.cols THEN L.data[n][c] ELSE Null]],
         type_fields |->
             IF type_name = kaybee THEN L.type_fields
             ELSE L.type_fields
                      \cup {<<type_name, c>> : c \in local_cols \ {NameCol, ContentCol}},
         nodes |-> [n \in (DOMAIN L.nodes) \cup names |->
                       IF n \in DOMAIN L.nodes THEN L.nodes[n] ELSE type_name]]

\* the kg.query calls of one turn, row by row
RECURSIVE PullTable(_, _, _, _, _, _)
PullTable(kg, L, R, type_name, scope, names) ==
    IF names = <<>>
    THEN [kg EXCEPT !.local = PullRows(L, R, type_name, scope, {})]
    ELSE LET before == PullTable(kg, L, R, type_name, scope,
                                 SubSeq(names, 1, Len(names) - 1))
         IN  query(before, PullRows(L, R, type_name, scope, Range(names)),
                   names[Len(names)])

\* sync_pull over the tables in the order given; total counts the rows
RECURSIVE PullLoop(_, _, _, _)
PullLoop(p, R, scope, order) ==
    IF order = <<>> THEN p
    ELSE LET rows == Scoped(R[Head(order)], scope)
         IN  PullLoop(Pulled(PullTable(p.kg, p.kg.local, R, Head(order), scope,
                                       Sorted({row[NameCol] : row \in rows})),
                             p.total + BagCount(R[Head(order)].rows, rows)),
                      R, scope, Tail(order))

sync_pull(kg, R, scope, order) == PullLoop(Pulled(kg, 0), R, scope, order)

\* the stores a pull into L can leave, one for each order of the tables
Pulls(L, R, scope) ==
    {sync_pull(Handle(L, FALSE, <<>>), R, scope, order).kg.local :
        order \in TableOrders(_get_mysql_tables(R, DOMAIN scope))}

\* an attribute map as a function from keys to values
AttrMap(meta) == [key \in Range(MetaKeys(meta)) |-> MetaGet(meta, key)]

\* what the engine reads for a node of a single-mode store: its type, its
\* body, and the attributes held in the non-NULL columns of its row, for a
\* typed node those in its type's field set only, with type re-attached
SingleRead(L, name) ==
    LET type_name == L.nodes[name]
        row       == L.data[name]
        keys      == {c \in L.cols \ {NameCol, ContentCol} :
                         /\ row[c] # Null
                         /\ type_name = kaybee \/ <<type_name, c>> \in L.type_fields}
        typed     == IF type_name = kaybee THEN keys ELSE keys \cup {TypeKey}
    IN  [type    |-> type_name,
         content |-> IF row[ContentCol] = Null THEN <<>> ELSE row[ContentCol],
         meta    |-> [key \in typed |->
                         IF key \in keys THEN DecodeCell(row[key])
                         ELSE StrV(type_name)]]

\* the same of a node of the store the engine writes to
SourceRead(d, name) ==
    [type    |-> d.nodes[name],
     content |-> _read_node_data(d, name).content,
     meta    |-> AttrMap(_read_node_data(d, name).meta)]

\* an attribute map as the sequence of its items, keys in order
MetaSeq(m) ==
    [i \in 1..Cardinality(DOMAIN m) |->
        <<Sorted(DOMAIN m)[i], m[Sorted(DOMAIN m)[i]]>>]

\* the store in single mode that holds what d holds: one row of _data for
\* each node, the columns of each type's table as that type's field set
ToSingle(d) ==
    LET held == {n \in DOMAIN d.nodes :
                    /\ SafeIdent(d.nodes[n]) \in DOMAIN d.tables
                    /\ n \in DOMAIN d.tables[SafeIdent(d.nodes[n])].rows}
        cols == {NameCol, ContentCol}
                    \cup UNION {Range(d.tables[t].cols) : t \in DOMAIN d.tables}
        RowOf(n) == d.tables[SafeIdent(d.nodes[n])].rows[n]
    IN  [cols |-> cols,
         data |-> [n \in held |->
                      [c \in cols |->
                          IF c = NameCol THEN n
                          ELSE IF c = ContentCol THEN RowOf(n).content
                          ELSE IF c \in DOMAIN RowOf(n).cells THEN RowOf(n).cells[c]
                          ELSE Null]],
         type_fields |-> UNION {{<<t, c>> : c \in Range(d.tables[t].cols)} :
                                   t \in (DOMAIN d.tables) \ {kaybee}},
         nodes |-> [n \in held |-> d.nodes[n]]]

\* the loop of _sync_push_full over the nodes of a single-mode store
RECURSIVE SingleFullLoop(_, _, _, _)
SingleFullLoop(L, k, scope, names) ==
    IF names = <<>> THEN k
    ELSE LET name == Head(names)
             data == SingleRead(L, name)
             a == _upsert_to_mysql(k.remote, data.type, name, data.content,
                                   MetaSeq(data.meta), scope)
         IN  SingleFullLoop(L, [k EXCEPT !.remote = a.remote, !.stmts = @ + a.stmts],
                            scope, Tail(names))

\* sync_push of a store handle run to its return
PushOf(kg, R, scope, since_seq) ==
    IF ~kg.enabled
    THEN Run(Pushing(scope, 0),
             Commit(SingleFullLoop(kg.local, Connected(R), scope,
                                   Sorted(DOMAIN kg.local.nodes))))
    ELSE LET run == Drain(kg.log, Run(Pushing(scope, since_seq), Connected(R)))
         IN  Run(run.push, Commit(run.conn))

\* ------------------------------------------------------------------------
\* Specification.  db is the connection's view of the store, committed what
\* the last commit left on disk.  partial counts the calls that raised after
\* executing a statement; a run is followed up to the MaxPartial-th of them.
\* ------------------------------------------------------------------------

\* no push called yet
Idle == [Pushing(Scope(eng), 0) EXCEPT !.pc = "idle"]

\* KnowledgeGraph(changelog=enabled)
Construct(enabled) ==
    /\ db = InitDb
    /\ committed = InitDb
    /\ validator = NoValidator
    /\ partial = 0
    /\ changelog_enabled = enabled
    /\ _changelog = <<>>
    /\ sqlite_sequence = 0
    /\ push = Idle
    /\ conn = Connected(EmptyRemote)

Init == Construct(FALSE) /\ remote = EmptyRemote

\* a call of sync_push has not returned yet
Running == push.pc \in {"fetch", "apply"}

ReturnWithin(r, most) ==
    /\ partial < MaxPartial
    /\ ~Running
    /\ Cardinality(DOMAIN r.db.nodes) <= most
    /\ db' = r.db
    /\ committed' = IF r.commit THEN r.db ELSE committed
    /\ partial' = IF r.err # "" /\ r.db # db THEN partial + 1 ELSE partial
    /\ UNCHANGED validator
    /\ UNCHANGED syncvars

Return(r) == ReturnWithin(r, MaxNodes)

\* a log that takes an entry for every call, whatever became of it
LoggedAlways(log, r, op, name, data) ==
    IF changelog_enabled THEN _log(log, sqlite_sequence, op, name, data) ELSE log

\* the changelog after a call that returned r: a call that reached its
\* commit appended one entry before it, any other call none
Logged(log, r, op, name, data) ==
    IF changelog_enabled /\ r.commit
    THEN _log(log, sqlite_sequence, op, name, data) ELSE log

Log(r, op, name, data) ==
    /\ changelog_enabled => sqlite_sequence < MaxSeq
    /\ _changelog' = Logged(_changelog, r, op, name, data)
    /\ sqlite_sequence' = IF changelog_enabled /\ r.commit
                           THEN sqlite_sequence + 1 ELSE sqlite_sequence
    /\ UNCHANGED changelog_enabled

Write(n, t) ==
    LET r == write(db, validator, n, t)
    IN  Return(r) /\ Log(r, "node.write", slugify(n), NodeData(r.db, slugify(n)))

Touch(n, t) ==
    LET r == touch(db, validator, n, t)
    IN  Return(r) /\ Log(r, "node.write", slugify(n), NodeData(r.db, slugify(n)))

Rm(n) ==
    LET r == rm(db, n)
    IN  Return(r) /\ Log(r, "node.rm", n, RmData(db, n))

Mv(a, b) ==
    LET r == mv(db, a, b)
    IN  Return(r) /\ Log(r, "node.mv", slugify(b), MvData(r.db, a, slugify(b)))

Cp(a, b) ==
    LET r == cp(db, a, b)
    IN  Return(r) /\ Log(r, "node.cp", slugify(b), NodeData(r.db, slugify(b)))

Ln(a, b) == Return(ln(db, a, b)) /\ UNCHANGED logvars

AddType(t) ==
    LET r == add_type(db, t)
    IN  Return(r) /\ Log(r, "type.add", t, NoData)

RemoveType(t) ==
    LET r == remove_type(db, t)
    IN  Return(r) /\ Log(r, "type.rm", t, NoData)

SetValidator(v) ==
    /\ partial < MaxPartial
    /\ validator' = v
    /\ UNCHANGED <<db, committed, partial>>
    /\ UNCHANGED logvars
    /\ UNCHANGED syncvars

ClearValidator ==
    /\ partial < MaxPartial
    /\ validator' = NoValidator
    /\ UNCHANGED <<db, committed, partial>>
    /\ UNCHANGED logvars
    /\ UNCHANGED syncvars

\* KnowledgeGraph.changelog_truncate(before_seq)
Truncate(before_seq) ==
    /\ partial < MaxPartial
    /\ _changelog' = changelog_truncate(changelog_enabled, _changelog, before_seq)
    /\ UNCHANGED <<db, committed, validator, partial>>
    /\ UNCHANGED <<changelog_enabled, sqlite_sequence>>
    /\ UNCHANGED syncvars

\* the node engine with no validator attached
Next ==
    \/ \E n \in RawNames, t \in Texts \cup {EmptyText} : Write(n, t)
    \/ \E n \in RawNames, t \in TouchTexts : Touch(n, t)
    \/ \E n \in Names : Rm(n)
    \/ \E a \in Names, b \in RawNames : Mv(a, b)
    \/ \E a \in Names, b \in RawNames : Cp(a, b)
    \/ \E a \in LnSources, b \in RawNames : Ln(a, b)
    \/ \E t \in TypeNames : AddType(t)
    \/ \E t \in TypeNames : RemoveType(t)

Spec == Init /\ [][Next]_vars

\* the write path with a validator attached and detached at will
NextGate ==
    \/ \E n \in RawNames, t \in Texts \cup {EmptyText} : Write(n, t)
    \/ \E n \in RawNames, t \in TouchTexts : Touch(n, t)
    \/ \E n \in Names : Rm(n)
    \/ \E v \in Validators : SetValidator(v)
    \/ ClearValidator

SpecGate == Init /\ [][NextGate]_vars

\* writes of texts with attributes of several shapes, over one another
NextRound ==
    \/ \E n \in RawNames, t \in RoundTexts : Write(n, t)
    \/ \E n \in Names : Rm(n)

SpecRound == Init /\ [][NextRound]_vars

\* the raw strings handed to the resolver
ResolveInputs == RawNames \cup Names \cup {<<"c">>, <<" ", "b", "!">>}

\* the names and texts of the runs with a changelog
LogRawNames == {<<"a">>, <<"B">>}
LogNames == {<<"a">>, <<"b">>}
LogTexts == {TextLinks, TextConcept, TextKaybee}
LogTouchTexts == {EmptyText, TextLinks}

\* a second user type, with a field of its own
topic == <<"t", "o", "p", "i", "c">>

TextTopic ==
    WithFm(<< <<TypeKey, StrV(topic)>>, <<<<"f">>, StrV(<<"v">>)>> >>, <<"x">>)

\* texts of the implicit type and of two user types
RetypeTexts == {TextLinks, TextConcept, TextTopic, TextReserved}

\* writes that change the type of a node back and forth
NextRetype ==
    \/ \E n \in LogRawNames, t \in RetypeTexts : Write(n, t)
    \/ \E n \in LogNames : Rm(n)
    \/ \E t \in {concept, topic} : RemoveType(t)

SpecRetype == Init /\ [][NextRetype]_vars

\* the nodes and bodies of a link graph: a diamond with a shortcut, a
\* chain, a cycle back to the start and a self-link
ReadNames == {<<"a">>, <<"b">>, <<"c">>, <<"d">>}

ReadTexts ==
    {Plain(Wl(<<"b">>) \o <<" ">> \o Wl(<<"c">>)),
     Plain(Wl(<<"c">>)),
     Plain(Wl(<<"d">>)),
     Plain(Wl(<<"d">>) \o <<" ">> \o Wl(<<"a">>))}

\* a write into a store of up to MaxReadNodes nodes
WriteGraph(n, t) ==
    LET r == write(db, validator, n, t)
    IN  ReturnWithin(r, MaxReadNodes) /\ Log(r, "node.write", slugify(n), NodeData(r.db, slugify(n)))

NextRead ==
    \/ \E n \in ReadNames, t \in ReadTexts : WriteGraph(n, t)
    \/ \E n \in ReadNames : Rm(n)

SpecRead == Init /\ [][NextRead]_vars

InitLog == (\E enabled \in BOOLEAN : Construct(enabled)) /\ remote = EmptyRemote

\* every logged mutation, the gatekeeper, and truncation
NextLog ==
    \/ \E n \in LogRawNames, t \in LogTexts : Write(n, t)
    \/ \E n \in LogRawNames, t \in LogTouchTexts : Touch(n, t)
    \/ \E n \in LogNames : Rm(n)
    \/ \E a \in LogNames, b \in LogRawNames : Mv(a, b)
    \/ \E a \in LogNames, b \in LogRawNames : Cp(a, b)
    \/ \E t \in TypeNames : AddType(t)
    \/ \E t \in TypeNames : RemoveType(t)
    \/ \E v \in Validators : SetValidator(v)
    \/ ClearValidator
    \/ \E before_seq \in 0..(MaxSeq + 1) : Truncate(before_seq)

SpecLog == InitLog /\ [][NextLog]_vars

\* the variables of the local store
kgvars == <<db, committed, validator, partial,
            changelog_enabled, _changelog, sqlite_sequence>>

\* the since_seq a caller passes: none, the seq the last push returned, or
\* the since_seq of the last push again
SinceSeqs ==
    {0} \cup (IF push.pc = "returned" THEN {push.last_seq} ELSE {})
        \cup (IF push.pc = "raised" THEN {push.since_seq} ELSE {})

\* sync_push is called with the changelog enabled and enters its loop
PushStart(scope, since_seq) ==
    /\ partial < MaxPartial
    /\ ~Running
    /\ changelog_enabled
    /\ push' = Pushing(scope, since_seq)
    /\ conn' = Connected(remote)
    /\ UNCHANGED remote
    /\ UNCHANGED kgvars

\* the while loop fetches a batch that holds entries
PushFetch ==
    /\ push.pc = "fetch"
    /\ Fetch(_changelog, push) # <<>>
    /\ push' = [push EXCEPT !.pc = "apply", !.batch = Fetch(_changelog, push)]
    /\ UNCHANGED <<remote, conn>>
    /\ UNCHANGED kgvars

\* the for loop comes to the end of a turn
Turn ==
    /\ push.pc = "apply"
    /\ push' = [Advance(push, Head(push.batch)) EXCEPT
                   !.batch = Tail(push.batch),
                   !.pc = IF Tail(push.batch) = <<>> THEN "fetch" ELSE "apply"]

\* the for loop applies the next entry of the batch
PushApply ==
    /\ Turn
    /\ conn' = Execute(conn, Head(push.batch), push.scope)
    /\ UNCHANGED remote
    /\ UNCHANGED kgvars

\* the while loop fetches an empty batch: commit, and return last_seq
PushReturn ==
    /\ push.pc = "fetch"
    /\ Fetch(_changelog, push) = <<>>
    /\ conn' = Commit(conn)
    /\ remote' = conn'.remote
    /\ push' = [push EXCEPT !.pc = "returned"]
    /\ UNCHANGED kgvars

\* sync_push is called with the changelog disabled
PushFull(scope) ==
    /\ partial < MaxPartial
    /\ ~Running
    /\ ~changelog_enabled
    /\ LET run == _sync_push_full(db, remote, scope)
       IN  /\ remote' = run.conn.remote
           /\ conn' = run.conn
           /\ push' = [run.push EXCEPT !.pc = "returned"]
    /\ UNCHANGED kgvars

\* sync_push is called and the adapter raises in one of its statements;
\* the remote database keeps what the statements before it did
PushRaise(scope, since_seq) ==
    /\ partial < MaxPartial
    /\ ~Running
    /\ changelog_enabled
    /\ \E R \in PartWay(_changelog, remote, scope, since_seq) : remote' = R
    /\ conn' = Connected(remote')
    /\ push' = [Pushing(scope, since_seq) EXCEPT !.pc = "raised"]
    /\ UNCHANGED kgvars

SyncNames == {<<"a">>, <<"b">>}

\* a concept with a description, the concept without it, an untyped node
TextDesc == WithFm(<< <<TypeKey, StrV(concept)>>, <<DescKey, StrV(<<"d">>)>> >>, <<"x">>)

TextBare == WithFm(<< <<TypeKey, StrV(concept)>> >>, <<"x">>)

TextUntyped == Plain(<<"y">>)

SyncTexts == {TextDesc, TextBare, TextUntyped}

\* the changelog of another tenant's store: a concept a with a description
TenantLog ==
    <<Entry(1, "node.write", <<"a">>,
            [type |-> concept, content |-> <<"z">>,
             meta |-> << <<DescKey, StrV(<<"e">>)>>, <<TypeKey, StrV(concept)>> >>])>>

\* the remote database after that tenant pushed under scope sales
TenantRemote ==
    sync_push(InitDb, TRUE, TenantLog, EmptyRemote, Scope(sales), 0).conn.remote

\* a store with or without a changelog, and a remote database that holds
\* the rows of the other tenant
InitSync == (\E enabled \in BOOLEAN : Construct(enabled)) /\ remote = TenantRemote

\* a store that is written, renamed and deleted from, and pushed under
\* scope eng
NextSync ==
    \/ \E t \in SyncTexts : Write(<<"a">>, t)
    \/ Write(<<"b">>, TextUntyped)
    \/ \E n \in SyncNames : Rm(n)
    \/ Mv(<<"a">>, <<"b">>)
    \/ \E t \in TypeNames : AddType(t)
    \/ \E since_seq \in SinceSeqs : PushStart(Scope(eng), since_seq)
    \/ PushFetch
    \/ PushApply
    \/ PushReturn
    \/ PushFull(Scope(eng))
    \/ \E since_seq \in SinceSeqs : PushRaise(Scope(eng), since_seq)

SpecSync == InitSync /\ [][NextSync]_vars

\* a push that has begun goes on to the end of each turn of its loops
SpecSyncLive ==
    SpecSync /\ WF_vars(PushFetch) /\ WF_push(Turn) /\ WF_vars(PushReturn)

\* ------------------------------------------------------------------------
\* Properties.  A property of a call is stated on what the handler returns
\* in each reachable state; a property of the store on the state itself.
\* ------------------------------------------------------------------------

\* resolve(target_raw) against the node set of d
Resolve(d, target) == resolve_wikilink(d, target, TRUE)

\* the body read back for an existing node
Body(d, n) == _read_node_data(d, n).content

\* the tables that hold a data row named n
TablesHolding(d, n) == {tb \in DOMAIN d.tables : n \in DOMAIN d.tables[tb].rows}

\* what each public mutation returns or raises when called in this state
Results ==
    {write(db, validator, n, t) : n \in RawNames, t \in Texts \cup {EmptyText}}
    \cup {touch(db, validator, n, t) : n \in RawNames, t \in TouchTexts}
    \cup {rm(db, n) : n \in Names}
    \cup {mv(db, a, b) : a \in Names, b \in RawNames}
    \cup {cp(db, a, b) : a \in Names, b \in RawNames}
    \cup {ln(db, a, b) : a \in LnSources, b \in RawNames}
    \cup {add_type(db, t) : t \in TypeNames}
    \cup {remove_type(db, t) : t \in TypeNames}

\* C1: after any sequence of successful write, touch, rm, mv, cp and ln calls
\* every row of the link index has target_resolved null or the name of a node
\* in the node index.
C1_ResolvedExists ==
    partial = 0 =>
        \A l \in db.links : l.resolved = Null \/ l.resolved \in DOMAIN db.nodes

\* C1 witness: only successful calls so far, and the link index holds a
\* dangling row next to a resolved one.
C1_Witness ==
    /\ partial = 0
    /\ \E l \in db.links : l.resolved = Null
    /\ \E l \in db.links : l.resolved \in DOMAIN db.nodes

\* C2: when a successful call brings a node t into existence, no row is
\* still dangling on return whose target_raw resolves to t.
C2_CreationResolves ==
    partial = 0 =>
        \A r \in Results :
            r.err = "" =>
                \A t \in DOMAIN r.db.nodes \ DOMAIN db.nodes :
                    \A l \in r.db.links :
                        l.resolved = Null => Resolve(r.db, l.target) # t

MovedRow(l, a, b) ==
    LET r == mv(db, a, b)
        new_name == slugify(b)
    IN  /\ r.err = "" /\ r.commit /\ db' = r.db
        /\ \E l0 \in db.links :
               l = [l0 EXCEPT !.source = IF @ = a THEN new_name ELSE @,
                              !.resolved = IF @ = a THEN new_name ELSE @]

C4_RowsMatchBody ==
    /\ \A n \in DOMAIN db.nodes :
           {l.target : l \in {x \in db.links : x.source = n}}
               = Range(extract_wikilinks(Body(db, n)))
    /\ \A l \in db.links : l.source \in DOMAIN db.nodes

\* C5: after any sequence of successful mutations every name of the node
\* index has exactly one data row, in the table of the type the index
\* records, and every data row belongs to a name of the node index.
C5_IndexMatchesData ==
    partial = 0 =>
        /\ \A n \in DOMAIN db.nodes :
               TablesHolding(db, n) = {SafeIdent(db.nodes[n])}
        /\ \A tb \in DOMAIN db.tables :
               DOMAIN db.tables[tb].rows \subseteq DOMAIN db.nodes

\* C5 witness: only successful calls so far, a typed table exists that a
\* type change, a move or a removal has emptied, and a node is stored.
C5_Witness ==
    /\ partial = 0
    /\ SafeIdent(concept) \in DOMAIN db.tables
    /\ db.tables[SafeIdent(concept)].rows = EmptyFn
    /\ \E n \in DOMAIN db.nodes : TablesHolding(db, n) = {kaybee}

\* C6: a public mutation that raises leaves the store as it was before the
\* call.
C6_RaiseChangesNothing ==
    \A r \in Results : r.err # "" => r.db = db

\* the structural rules whose type filter is null or the effective type
Matching(rules, meta) ==
    {i \in 1..Len(rules) :
        /\ rules[i].structural
        /\ rules[i].filter = Null \/ rules[i].filter = EffectiveType(meta)}

\* C7: with a validator attached, a write or a touch with content whose
\* attributes violate a matching structural rule raises ValidationError and
\* changes nothing.
C7_VetoChangesNothing ==
    validator.attached =>
        \A n \in RawNames, t \in Texts :
            LET meta == parse_frontmatter(t).meta
                w == write(db, validator, n, t)
                c == touch(db, validator, n, t)
            IN  (\E i \in Matching(validator.rules, meta) :
                     Violates(validator.rules[i], slugify(n), meta))
                => /\ w.err = "ValidationError" /\ w.db = db
                   /\ c.err = "ValidationError" /\ c.db = db

\* C8: a write evaluates exactly the structural rules whose type filter is
\* null or equals the node's effective type, and no relational rule.
C8_EvaluatesMatching ==
    validator.attached =>
        \A n \in RawNames, t \in Texts :
            write(db, validator, n, t).evaluated
                = Matching(validator.rules, parse_frontmatter(t).meta)

\* C9: a successful mv(a, b) with a # b turns source a and target_resolved a
\* into b in every row, leaves no row with a as source or target_resolved,
\* removes a, and gives b the type, body and attributes a had.
C9_MvRenames ==
    \A a \in Names, b \in RawNames :
        LET r == mv(db, a, b)
            new_name == slugify(b)
        IN  r.err = "" /\ a # new_name =>
                /\ \A l \in db.links :
                       /\ l.source = a =>
                              \E m \in r.db.links :
                                  m.source = new_name /\ m.target = l.target
                       /\ l.resolved = a =>
                              \E m \in r.db.links :
                                  /\ m.source = (IF l.source = a THEN new_name
                                                 ELSE l.source)
                                  /\ m.target = l.target
                                  /\ m.resolved = new_name
                /\ \A m \in r.db.links : m.source # a /\ m.resolved # a
                /\ ~exists(r.db, a)
                /\ exists(r.db, new_name)
                /\ r.db.nodes[new_name] = db.nodes[a]
                /\ _read_node_data(r.db, new_name) = _read_node_data(db, a)

\* C9 witness: mv is called on a typed node with attributes that has
\* outgoing rows and rows of another node resolved to it, and returns.
C9_Witness ==
    \E a \in Names, b \in RawNames :
        /\ mv(db, a, b).err = "" /\ a # slugify(b)
        /\ db.nodes[a] = concept
        /\ _read_node_data(db, a).meta # <<>>
        /\ \E l \in db.links : l.source = a
        /\ \E l \in db.links : l.resolved = a /\ l.source # a
        /\ \E m \in mv(db, a, b).db.links : m.resolved = slugify(b)

\* C10: a successful rm(a) leaves a in neither the node index nor a data
\* table, leaves no row with source a, nulls target_resolved in every row
\* that had a there, and changes no other node and no other row.
C10_RmCleans ==
    \A a \in Names :
        LET r == rm(db, a)
        IN  r.err = "" =>
                /\ ~exists(r.db, a)
                /\ TablesHolding(r.db, a) = {}
                /\ r.db.links =
                       {IF l.resolved = a THEN [l EXCEPT !.resolved = Null] ELSE l :
                            l \in {x \in db.links : x.source # a}}
                /\ \A n \in DOMAIN db.nodes \ {a} :
                       /\ exists(r.db, n)
                       /\ r.db.nodes[n] = db.nodes[n]
                       /\ _read_node_data(r.db, n) = _read_node_data(db, n)
                /\ DOMAIN r.db.nodes \subseteq DOMAIN db.nodes

\* C10 witness: rm is called on a node that has outgoing rows and rows of
\* another node resolved to it, and returns with those rows dangling.
C10_Witness ==
    \E a \in Names :
        /\ rm(db, a).err = ""
        /\ \E l \in db.links : l.source = a
        /\ \E l \in db.links : l.resolved = a /\ l.source # a
        /\ \E m \in rm(db, a).db.links : m.resolved = Null /\ Resolve(db, m.target) = a

\* the attributes of a meta other than type, as a map
AttrsOf(meta) ==
    [k \in Range(MetaKeys(meta)) \ {TypeKey} |-> MetaGet(meta, k)]

\* C11: after write(n, t) the stored body is t's body, the stored attributes
\* are the attributes parsed from t with the node's type as type, whatever
\* the store held before, and read(n, 0) parses back to the same pair.
C11_WriteRoundTrips ==
    \A n \in RawNames, t \in RoundTexts :
        LET r == write(db, validator, n, t)
            p == parse_frontmatter(t)
            stored == _read_node_data(r.db, slugify(n))
            back == parse_frontmatter(read(r.db, slugify(n)))
        IN  r.err = "" =>
                /\ stored.content = p.body
                /\ AttrsOf(stored.meta) = AttrsOf(p.meta)
                /\ r.db.nodes[slugify(n)] = EffectiveType(p.meta)
                /\ back.body = p.body
                /\ AttrsOf(back.meta) = AttrsOf(p.meta)

\* C12: touch(n) with empty or absent content on an existing node returns
\* without raising and changes nothing: the store it leaves (types, bodies,
\* attributes and link rows of every node) is the store it found, and the
\* changelog gains no entry.
C12_TouchExistingNoOp ==
    \A n \in LogRawNames :
        exists(db, slugify(n)) =>
            LET r == touch(db, validator, n, EmptyText)
            IN  /\ r.err = ""
                /\ r.db = db
                /\ Logged(_changelog, r, "node.write", slugify(n),
                          NodeData(r.db, slugify(n))) = _changelog

\* an existing node with a body, attributes and a link row is touched
\* without content while the changelog holds entries
C12_Witness ==
    /\ changelog_enabled /\ _changelog # <<>>
    /\ exists(db, <<"a">>)
    /\ db.nodes[<<"a">>] = concept
    /\ Body(db, <<"a">>) # <<>>
    /\ \E l \in db.links : l.source = <<"a">>
    /\ touch(db, validator, <<"a">>, EmptyText).err = ""

\* the existing nodes whose canonical form is that of the raw string r
SameSlug(d, r) == {m \in DOMAIN d.nodes : slugify(m) = slugify(r)}

\* C13: resolve(N) returns N for every existing node name N; fuzzy
\* resolve(r) returns an existing node whose canonical form equals
\* normalize(r) when there is one and null otherwise; non-fuzzy resolve(r)
\* returns r when r is an existing name and null otherwise.
C13_ResolveStable ==
    /\ \A N \in DOMAIN db.nodes :
           /\ resolve_wikilink(db, N, TRUE) = N
           /\ resolve_wikilink(db, N, FALSE) = N
    /\ \A r \in ResolveInputs :
           /\ SameSlug(db, r) # {} => resolve_wikilink(db, r, TRUE) \in SameSlug(db, r)
           /\ SameSlug(db, r) = {} => resolve_wikilink(db, r, TRUE) = Null
           /\ resolve_wikilink(db, r, FALSE) =
                  IF r \in DOMAIN db.nodes THEN r ELSE Null

\* a raw string that is no node name resolves fuzzily to an existing node
\* and not at all without fuzziness, while another string resolves to none
C13_Witness ==
    /\ <<"A", " ", "b">> \notin DOMAIN db.nodes
    /\ resolve_wikilink(db, <<"A", " ", "b">>, TRUE) = <<"a", "-", "b">>
    /\ resolve_wikilink(db, <<"A", " ", "b">>, FALSE) = Null
    /\ resolve_wikilink(db, <<"a">>, TRUE) = <<"a">>
    /\ resolve_wikilink(db, <<"c">>, TRUE) = Null

\* a call that raised e, or returned when e is "", and left the store as
\* it found it
Refused(r, e) == r.err = e /\ r.db = db /\ ~r.commit

\* C14: mv and cp with a missing source raise NotFound (KeyError); with an
\* existing source, mv and cp whose normalized destination is another
\* existing node raise AlreadyExists (FileExistsError), as does ln whenever
\* its normalized destination exists; cp onto its own name raises
\* IllegalArgument (ValueError) and mv onto its own name returns without
\* doing anything.  In each of these cases the store is left unchanged.
C14_RefusalsChangeNothing ==
    /\ \A a \in Names, b \in RawNames :
           /\ ~exists(db, a) =>
                  /\ Refused(mv(db, a, b), "KeyError")
                  /\ Refused(cp(db, a, b), "KeyError")
           /\ exists(db, a) /\ slugify(b) # a /\ exists(db, slugify(b)) =>
                  /\ Refused(mv(db, a, b), "FileExistsError")
                  /\ Refused(cp(db, a, b), "FileExistsError")
           /\ exists(db, a) /\ slugify(b) = a =>
                  /\ Refused(mv(db, a, b), "")
                  /\ Refused(cp(db, a, b), "ValueError")
    /\ \A a \in LnSources, b \in RawNames :
           exists(db, slugify(b)) => Refused(ln(db, a, b), "FileExistsError")

\* with nodes a and b and no node a-b, each of the refusals happens
C14_Witness ==
    /\ DOMAIN db.nodes = {<<"a">>, <<"b">>}
    /\ Body(db, <<"a">>) # Body(db, <<"b">>)
    /\ mv(db, <<"a", "-", "b">>, <<"B">>).err = "KeyError"
    /\ cp(db, <<"a">>, <<"B">>).err = "FileExistsError"
    /\ mv(db, <<"a">>, <<"B">>).err = "FileExistsError"
    /\ ln(db, <<"a">>, <<"B">>).err = "FileExistsError"
    /\ cp(db, <<"a">>, <<"a">>).err = "ValueError"
    /\ mv(db, <<"a">>, <<"a">>) = NoOp(db)

\* the index rows of type t
NodesOfType(d, t) == {n \in DOMAIN d.nodes : d.nodes[n] = t}

\* C15: remove_type(t) raises TypeInUse (ValueError) and leaves the type
\* registry and all nodes unchanged whenever a node of type t exists; when
\* none does it takes t, and nothing else, out of the registry.
C15_RemoveTypeInUse ==
    \A t \in TypeNames \cup {kaybee} :
        LET r == remove_type(db, t)
        IN  /\ NodesOfType(db, t) # {} => Refused(r, "ValueError")
            /\ NodesOfType(db, t) = {} =>
                   /\ r.err = ""
                   /\ r.db = [db EXCEPT !.types = db.types \ {t}]

\* a registered type with a node of that type, whose removal is refused
C15_Witness ==
    /\ concept \in db.types
    /\ NodesOfType(db, concept) # {}
    /\ remove_type(db, concept).err = "ValueError"

\* the type names the engine is to keep for itself
ReservedNames ==
    {NodesTable, TypesTable, LinksTable,
     <<"_", "c", "h", "a", "n", "g", "e", "l", "o", "g">>,
     <<"_", "d", "a", "t", "a">>,
     <<"_", "t", "y", "p", "e", "_", "f", "i", "e", "l", "d", "s">>}

\* C16: a write whose type is a reserved name and an add_type of a reserved
\* name are both rejected with IllegalArgument (ValueError), and in every
\* reachable state no node has a reserved type and the type registry
\* contains no reserved name.
C16_ReservedRejected ==
    /\ \A t \in ReservedNames :
           /\ add_type(db, t).err = "ValueError"
           /\ \A n \in RawNames :
                  write(db, validator, n,
                        WithFm(<< <<TypeKey, StrV(t)>> >>, <<"x">>)).err = "ValueError"
    /\ \A n \in DOMAIN db.nodes : db.nodes[n] \notin ReservedNames
    /\ db.types \cap ReservedNames = {}

\* the writes of this state after which an existing node is listed under
\* another type than before: [name, t1, t2, db]
Retypings ==
    {[name |-> slugify(x[1]), t1 |-> db.nodes[slugify(x[1])],
      t2 |-> write(db, validator, x[1], x[2]).db.nodes[slugify(x[1])],
      db |-> write(db, validator, x[1], x[2]).db] :
        x \in {y \in LogRawNames \X RetypeTexts :
                 /\ exists(db, slugify(y[1]))
                 /\ write(db, validator, y[1], y[2]).db.nodes[slugify(y[1])]
                        # db.nodes[slugify(y[1])]}}

\* C17: when a write changes an existing node's type from t1 to t2,
\* afterwards the node has no data record in t1's storage and exactly one
\* in t2's, is listed under t2 and not under t1, and t2 is registered.
C17_RetypeMovesRegisters ==
    \A c \in Retypings :
        /\ TablesHolding(c.db, c.name) = {SafeIdent(c.t2)}
        /\ c.db.nodes[c.name] = c.t2
        /\ c.t2 \in c.db.types

\* the seq values of the entries of a log, in order
Seqs(log) == [i \in 1..Len(log) |-> log[i].seq]

\* C18: with the changelog enabled, seq values are issued as consecutive
\* integers in issue order and none is issued twice, also after entries
\* were truncated: a step issues no seq or exactly the one after the last
\* seq ever issued, appended at the end of the log; any other step only
\* drops entries; and the entries kept are in strictly increasing,
\* gap-free seq order.
C18_SeqConsecutive ==
    [][changelog_enabled =>
          /\ \/ /\ sqlite_sequence' = sqlite_sequence + 1
                /\ Len(_changelog') = Len(_changelog) + 1
                /\ SubSeq(_changelog', 1, Len(_changelog)) = _changelog
                /\ _changelog'[Len(_changelog')].seq = sqlite_sequence + 1
             \/ /\ sqlite_sequence' = sqlite_sequence
                /\ \E k \in 0..Len(_changelog) :
                       _changelog' = SubSeq(_changelog, k + 1, Len(_changelog))
          /\ \A i \in 1..Len(_changelog') :
                 /\ _changelog'[i].seq \in 1..sqlite_sequence'
                 /\ i > 1 => _changelog'[i].seq = _changelog'[i - 1].seq + 1]_vars

\* every entry issued so far has been truncated, and the next write is
\* given the seq after the last one issued
C18_Witness ==
    /\ changelog_enabled
    /\ _changelog = <<>>
    /\ sqlite_sequence = 2
    /\ Seqs(Logged(_changelog, write(db, validator, <<"a">>, TextLinks),
                    "node.write", <<"a">>, NoData)) = <<3>>

Call(r, op, name, data, noop) ==
    [r |-> r, op |-> op, name |-> name, data |-> data, noop |-> noop]

\* the logged calls of this state: what each returns, the op and principal
\* name of its entry, and whether it is one of the calls that do nothing
LoggedCalls ==
    {Call(write(db, validator, n, t), "node.write", slugify(n),
          NodeData(write(db, validator, n, t).db, slugify(n)), FALSE) :
        n \in LogRawNames, t \in LogTexts}
    \cup {Call(touch(db, validator, n, t), "node.write", slugify(n),
               NodeData(touch(db, validator, n, t).db, slugify(n)),
               exists(db, slugify(n)) /\ t = EmptyText) :
        n \in LogRawNames, t \in LogTouchTexts}
    \cup {Call(rm(db, n), "node.rm", n, RmData(db, n), FALSE) : n \in LogNames}
    \cup {Call(mv(db, a, b), "node.mv", slugify(b),
               MvData(mv(db, a, b).db, a, slugify(b)), slugify(b) = a) :
        a \in LogNames, b \in LogRawNames}
    \cup {Call(cp(db, a, b), "node.cp", slugify(b),
               NodeData(cp(db, a, b).db, slugify(b)), FALSE) :
        a \in LogNames, b \in LogRawNames}
    \cup {Call(add_type(db, t), "type.add", t, NoData, FALSE) : t \in TypeNames}
    \cup {Call(remove_type(db, t), "type.rm", t, NoData, FALSE) : t \in TypeNames}

\* C19: with the changelog enabled, every write, creating or overwriting
\* touch, rm, mv, cp, add_type and remove_type that succeeds appends
\* exactly one entry, with its op and principal name, after the entries of
\* the earlier calls; a call that raises (a vetoed write among them) or
\* does nothing (touch without content on an existing node, mv onto the
\* same name) appends none.
C19_OneEntryPerMutation ==
    changelog_enabled =>
        \A c \in LoggedCalls :
            LET after == Logged(_changelog, c.r, c.op, c.name, c.data)
            IN  IF c.r.err = "" /\ ~c.noop
                THEN /\ Len(after) = Len(_changelog) + 1
                     /\ SubSeq(after, 1, Len(_changelog)) = _changelog
                     /\ after[Len(after)].op = c.op
                     /\ after[Len(after)].name = c.name
                ELSE after = _changelog

\* with a validator attached and entries in the log, a write is vetoed, a
\* touch and a mv do nothing, and a mv and a cp succeed
C19_Witness ==
    /\ changelog_enabled /\ _changelog # <<>>
    /\ validator.attached
    /\ write(db, validator, <<"B">>, TextKaybee).err = "ValidationError"
    /\ exists(db, <<"a">>)
    /\ touch(db, validator, <<"a">>, EmptyText).err = ""
    /\ mv(db, <<"a">>, <<"a">>).err = ""
    /\ Logged(_changelog, mv(db, <<"a">>, <<"B">>), "node.mv", <<"b">>, NoData)
           = Append(_changelog, Entry(sqlite_sequence + 1, "node.mv", <<"b">>, NoData))
    /\ cp(db, <<"a">>, <<"B">>).err = ""

\* the entries of the log with seq above since_seq
Above(since_seq) == {i \in 1..Len(_changelog) : _changelog[i].seq > since_seq}

\* C20: changelog(since_seq, limit) returns exactly the entries with
\* seq > since_seq, in ascending seq order, cut to the first limit of them;
\* with the changelog disabled it returns the empty list.
C20_QueryWindow ==
    \A since_seq \in 0..(MaxSeq + 1), limit \in 0..(MaxSeq + 1) :
        LET res == changelog(changelog_enabled, _changelog, since_seq, limit)
        IN  IF ~changelog_enabled THEN res = <<>>
            ELSE /\ Len(res) = Min(limit, Cardinality(Above(since_seq)))
                 /\ \A i \in 1..Len(res) :
                        /\ \E j \in Above(since_seq) : res[i] = _changelog[j]
                        /\ i > 1 => res[i - 1].seq < res[i].seq
                        \* the first limit: no entry left out lies below one returned
                        /\ \A j \in Above(since_seq) :
                               _changelog[j].seq < res[i].seq =>
                                   \E k \in 1..(i - 1) : res[k] = _changelog[j]

\* a log of three entries of which the query after seq 1 with limit 1
\* returns the second alone
C20_Witness ==
    /\ changelog_enabled
    /\ Seqs(_changelog) = <<1, 2, 3>>
    /\ Seqs(changelog(changelog_enabled, _changelog, 1, 1)) = <<2>>
    /\ Seqs(changelog(changelog_enabled, _changelog, 0, 4)) = <<1, 2, 3>>

\* the entries of the log a push from since_seq has to apply
Pending(since_seq) == SelectSeq(_changelog, LAMBDA e : e.seq > since_seq)

\* the last push has returned, having applied the pending entries once each
\* in log order, and has returned the seq of the last of them
Drained(since_seq) ==
    /\ push.pc = "returned"
    /\ push.since_seq = since_seq
    /\ push.applied = Seqs(Pending(since_seq))
    /\ push.last_seq = IF Pending(since_seq) = <<>> THEN since_seq
                       ELSE _changelog[Len(_changelog)].seq

\* C21: a changelog-driven push(since_seq = s) terminates, applies every
\* changelog entry with seq > s exactly once in ascending seq order,
\* however many batches that takes, and returns the seq of the last entry
\* of the changelog, or s when no entry has seq > s.
C21_PushDrains ==
    \A s \in 0..MaxSeq :
        (push.pc = "fetch" /\ push.applied = <<>> /\ push.since_seq = s)
            ~> Drained(s)

\* a push from 0 has returned after more entries than one batch holds
C21_Witness ==
    /\ Drained(0)
    /\ Len(push.applied) > BatchLimit

\* the push of the store as it is, from since_seq, under the scope eng
First(since_seq) ==
    sync_push(db, changelog_enabled, _changelog, remote, Scope(eng), since_seq)

\* the push that follows it with nothing written in between, given the seq
\* the first one returned
Second(since_seq) ==
    sync_push(db, changelog_enabled, _changelog, First(since_seq).conn.remote,
              Scope(eng), First(since_seq).push.last_seq)

\* C22 as stated: if no mutation happens between two pushes and the second is
\* given the seq the first returned, the second returns that same seq and
\* issues no insert, update, delete or schema change against the remote store.
C22_SecondPushSilent ==
    \A s \in 0..MaxSeq :
        /\ Second(s).push.last_seq = First(s).push.last_seq
        /\ Second(s).conn.stmts = 0

\* C22, amended: the second push returns the seq the first returned and
\* leaves the remote store as the first left it; with the changelog enabled
\* it issues no insert, update, delete or schema change.
C22_SecondPushNoOp ==
    \A s \in 0..MaxSeq :
        /\ Second(s).push.last_seq = First(s).push.last_seq
        /\ Second(s).conn.remote = First(s).conn.remote
        /\ changelog_enabled => Second(s).conn.stmts = 0

\* a push that applied entries has returned, and so has the push that was
\* given the seq it returned: it applied nothing and executed nothing
C22_Witness ==
    /\ changelog_enabled
    /\ push.pc = "returned"
    /\ push.since_seq > 0
    /\ push.since_seq = _changelog[Len(_changelog)].seq
    /\ push.applied = <<>>
    /\ conn.stmts = 0
    /\ First(0).conn.stmts > 0
    /\ remote = First(0).conn.remote

\* the remote stores an earlier push from since_seq can have left behind:
\* the one of a push that completed, and those of a push that raised
LeftBy(since_seq) ==
    {First(since_seq).conn.remote}
        \cup PartWay(_changelog, remote, Scope(eng), since_seq)

\* the push from since_seq that is made again on what an earlier one left
Retry(R, since_seq) ==
    sync_push(db, changelog_enabled, _changelog, R, Scope(eng), since_seq)

\* C23: a push retried with the same since_seq, after an earlier push from
\* that since_seq that completed or that raised part-way, leaves the remote
\* store in the state one uninterrupted push from that since_seq leaves:
\* the same rows in every table, none twice, none missing, none back.
C23_RetrySameRemote ==
    \A s \in 0..MaxSeq :
        \A R \in LeftBy(s) :
            Retry(R, s).conn.remote = First(s).conn.remote

\* a push from 0 raised after it had executed statements and before it had
\* executed all, with a deletion among the entries replayed, and the retry
\* ends where the uninterrupted push ends
C23_Witness ==
    /\ changelog_enabled
    /\ \E i \in 1..Len(_changelog) : _changelog[i].op = "node.rm"
    /\ \E R \in PartWay(_changelog, remote, Scope(eng), 0) :
          /\ R # remote
          /\ R # First(0).conn.remote
          /\ Retry(R, 0).conn.remote = First(0).conn.remote

\* the number of rows named name that the tables of tables hold under scope
RECURSIVE CountNamed(_, _, _, _)
CountNamed(R, tables, scope, name) ==
    IF tables = {} THEN 0
    ELSE LET table == CHOOSE x \in tables : TRUE
             named == {row \in Scoped(R[table], scope) : row[NameCol] = name}
         IN  BagCount(R[table].rows, named)
                 + CountNamed(R, tables \ {table}, scope, name)

\* SELECT COUNT(*) ... WHERE name = ? AND team_id = ?, over every table
RowsNamed(R, scope, name) == CountNamed(R, DOMAIN R, scope, name)

\* the seqs below the last changelog entry, when that entry records op
Before(op) ==
    IF changelog_enabled /\ _changelog # <<>>
          /\ _changelog[Len(_changelog)].op = op
    THEN 0..(_changelog[Len(_changelog)].seq - 1)
    ELSE {}

\* C24: deletions and renames reach the remote store: after rm(n) followed
\* by push no remote row named n exists under the pushed scope; after
\* mv(a, b) followed by push no remote row named a exists under that scope
\* and exactly one row named b does; and the seq returned is greater than
\* the since_seq given.
C24_DeletesReachRemote ==
    LET e == _changelog[Len(_changelog)]
    IN  /\ \A s \in Before("node.rm") :
              /\ RowsNamed(First(s).conn.remote, Scope(eng), e.name) = 0
              /\ First(s).push.last_seq > s
        /\ \A s \in Before("node.mv") :
              /\ RowsNamed(First(s).conn.remote, Scope(eng), e.data.old_name) = 0
              /\ RowsNamed(First(s).conn.remote, Scope(eng), e.name) = 1
              /\ First(s).push.last_seq > s

\* the rows of a table that some scope column sets apart from scope
Foreign(t, scope) == (DOMAIN t.rows) \ Scoped(t, scope)

\* every row of R0 outside scope is in R1 as often as in R0, with what it
\* held in the columns it had and NULL in the columns added since, and R1
\* has no other row outside scope
OthersKept(R0, R1, scope) ==
    /\ DOMAIN R0 \subseteq DOMAIN R1
    /\ \A table \in DOMAIN R1 :
          LET old  == IF table \in DOMAIN R0 THEN R0[table]
                      ELSE [cols |-> {}, unique |-> {}, rows |-> EmptyFn]
              new  == R1[table]
              Grown(row) == [c \in new.cols |-> IF c \in old.cols THEN row[c] ELSE Null]
          IN  /\ old.cols \subseteq new.cols
              /\ Foreign(new, scope) = {Grown(row) : row \in Foreign(old, scope)}
              /\ \A row \in Foreign(old, scope) : new.rows[Grown(row)] = old.rows[row]

\* every row of _data and of the index that a pull under scope left in L is
\* a row that some table of R holds under scope
OnlyScoped(L, R, scope) ==
    /\ DOMAIN L.nodes = DOMAIN L.data
    /\ \A n \in DOMAIN L.data :
          \E table \in _get_mysql_tables(R, DOMAIN scope) :
              \E row \in Scoped(R[table], scope) :
                  /\ row[NameCol] = n
                  /\ \A c \in L.cols :
                        L.data[n][c] = IF c \in R[table].cols \ DOMAIN scope
                                       THEN row[c] ELSE Null

\* the scopes a tenant pushes and pulls under
TenantScopes == {Scope(eng), ScopeUser}

\* C27: tenants are isolated by scope: a push under scope A never creates,
\* modifies or deletes a remote row whose scope columns differ from A, also
\* when the same node name exists under another scope, and a pull under A
\* imports only rows whose every scope column equals A's value.
C27_TenantsIsolated ==
    \A A \in TenantScopes :
        /\ \A s \in 0..MaxSeq :
              OthersKept(remote,
                         sync_push(db, changelog_enabled, _changelog, remote, A, s).conn.remote,
                         A)
        /\ \A L \in Pulls(FreshSingle, remote, A) : OnlyScoped(L, remote, A)

\* C25: push followed by pull into a fresh store yields a store whose every
\* pulled node has the type, the body and the attribute map the node has in
\* the source.
C25_PushPullRoundTrip ==
    \A L \in Pulls(FreshSingle, First(0).conn.remote, Scope(eng)) :
        \A n \in (DOMAIN L.nodes) \cap (DOMAIN db.nodes) :
            SingleRead(L, n) = SourceRead(db, n)

\* the store as a handle, and what a pull under the scope eng makes of it
Here == Handle(ToSingle(db), changelog_enabled, _changelog)

AfterPull ==
    {sync_pull(Here, remote, Scope(eng), order).kg :
        order \in TableOrders(_get_mysql_tables(remote, {team_id}))}

\* the push of kg from since_seq does what the push of the store before the
\* pull does: the same entries applied, the same statements, the same
\* remote store
SendsTheSame(kg, since_seq) ==
    /\ PushOf(kg, remote, Scope(eng), since_seq).push.applied
           = PushOf(Here, remote, Scope(eng), since_seq).push.applied
    /\ PushOf(kg, remote, Scope(eng), since_seq).conn
           = PushOf(Here, remote, Scope(eng), since_seq).conn

\* C26 as stated: pull never appends to the local changelog: the changelog
\* holds the same entries before and after a pull, so a push that follows a
\* pull sends nothing that the pull brought in.
C26_PullSendsNothingBack ==
    \A kg \in AfterPull :
        /\ kg.log = _changelog
        /\ \A s \in 0..MaxSeq : SendsTheSame(kg, s)

\* C26, amended: the changelog holds the same entries before and after a
\* pull, so a changelog-driven push that follows a pull sends nothing that
\* the pull brought in.
C26_PullLogsNothing ==
    \A kg \in AfterPull :
        /\ kg.log = _changelog
        /\ changelog_enabled => \A s \in 0..MaxSeq : SendsTheSame(kg, s)

\* a store with a changelog that holds entries pulls a node it does not
\* hold, and the push from 0 that follows applies the entries
C26_Witness ==
    /\ changelog_enabled
    /\ _changelog # <<>>
    /\ \E kg \in AfterPull :
          /\ DOMAIN kg.local.nodes # DOMAIN db.nodes
          /\ kg.log = _changelog
          /\ PushOf(kg, remote, Scope(eng), 0).push.applied # <<>>

\* upsert_row of the single-mode backend: the columns _data lacks are
\* added, the keys of a typed node are recorded in _type_fields, and the
\* row of name is replaced by one that holds content and cells, NULL in
\* every other column
upsert_row(S, type_name, name, content, cells) ==
    LET cols == S.cols \cup DOMAIN cells
    IN  [cols |-> cols,
         data |-> [n \in (DOMAIN S.data) \cup {name} |->
                      [c \in cols |->
                          IF n = name
                          THEN IF c = NameCol THEN name
                               ELSE IF c = ContentCol THEN content
                               ELSE IF c \in DOMAIN cells THEN cells[c]
                               ELSE Null
                          ELSE IF c \in S.cols THEN S.data[n][c] ELSE Null]],
         type_fields |->
             IF type_name = kaybee THEN S.type_fields
             ELSE S.type_fields \cup {<<type_name, c>> : c \in DOMAIN cells},
         nodes |-> Put(S.nodes, name, type_name)]

\* write on a single-mode store: the gatekeeper, the reserved type names,
\* then the row; a rejected write leaves the store as it was
SingleWrite(S, val, raw, content) ==
    LET name == slugify(raw)
        p    == parse_frontmatter(content)
        keys == SelectKeys(MetaKeys(p.meta), {TypeKey})
    IN  IF val.attached /\ validate_structural(val.rules, name, p.meta) # {}
        THEN [store |-> S, err |-> "ValidationError"]
        ELSE IF EffectiveType(p.meta) \in ReservedNames
        THEN [store |-> S, err |-> "ValueError"]
        ELSE [store |-> upsert_row(S, EffectiveType(p.meta), name, p.body,
                                   RowCells(keys, p.meta)),
              err |-> ""]

\* what exists, ls, frontmatter and body return, of a multi-mode store and
\* of a single-mode store
ObservedMulti(d) == [n \in DOMAIN d.nodes |-> SourceRead(d, n)]

ObservedSingle(S) == [n \in DOMAIN S.nodes |-> SingleRead(S, n)]

\* kg.write("item", "---\ntype: _data\n---\nbody")
TextData == WithFm(<< <<TypeKey, StrV(<<"_", "d", "a", "t", "a">>)>> >>, <<"x">>)

\* C29: single mode and multi mode are observationally equivalent: the
\* same operation applied to a single-mode store and to a multi-mode store
\* that hold the same nodes raises in both or in neither and leaves exists,
\* ls, frontmatter and body with the same results; reading a typed node in
\* single mode surfaces no attribute of another type or of a previous type.
C29_ModesAgree ==
    \A n \in LogRawNames, t \in RetypeTexts \cup {TextData} :
        LET m == write(db, validator, n, t)
            o == SingleWrite(ToSingle(db), validator, n, t)
        IN  /\ (m.err = "") = (o.err = "")
            /\ ObservedMulti(m.db) = ObservedSingle(o.store)

\* the names of the sections of a read, as a set
Emitted(sections) == {sections[i].name : i \in 1..Len(sections)}

\* C28: read(name, depth) returns for every link graph, with cycles and
\* self-links, and emits each node at most once: the root as the first
\* section, without a marker, and every other node in at most one section,
\* with its marker.
C28_ReadEmitsOnce ==
    \A n \in DOMAIN db.nodes, depth \in 1..MaxDepth :
        LET s == ReadSections(db, n, depth)
        IN  /\ Len(s) \in 1..Cardinality(DOMAIN db.nodes)
            /\ s[1].name = n /\ ~s[1].delimited
            /\ \A i \in 2..Len(s) : s[i].delimited /\ s[i].name # n
            /\ \A i, j \in 1..Len(s) : s[i].name = s[j].name => i = j

\* a cycle a -> c -> d -> a with a self-link on d, read from a to the
\* largest depth: all four nodes are emitted
C28_Witness ==
    /\ \E l \in db.links : l.source = <<"d">> /\ l.resolved = <<"d">>
    /\ \E l \in db.links : l.source = <<"d">> /\ l.resolved = <<"a">>
    /\ \E l \in db.links : l.source = <<"a">> /\ l.resolved = <<"c">>
    /\ \E l \in db.links : l.source = <<"c">> /\ l.resolved = <<"d">>
    /\ Len(ReadSections(db, <<"a">>, MaxDepth)) = 4

\* the existing nodes at most k resolved links away from name
RECURSIVE Within(_, _, _)
Within(d, name, k) ==
    IF k <= 0 THEN {name}
    ELSE LET near == Within(d, name, k - 1)
         IN  near \cup {l.resolved : l \in {x \in d.links :
                            /\ x.source \in near
                            /\ x.resolved # Null
                            /\ exists(d, x.resolved)}}

\* C30: for depth d > 0 the nodes emitted by read(name, d) are exactly the
\* existing nodes reachable from name through resolved links in at most d
\* hops: none farther away is emitted and none within d hops is omitted,
\* whatever longer paths lead to it.
C30_ReadEmitsWithinDepth ==
    \A n \in DOMAIN db.nodes, depth \in 1..MaxDepth :
        Emitted(ReadSections(db, n, depth)) = Within(db, n, depth)

\* the changelog as it was when seq s was the last seq issued
Upto(s) == SelectSeq(_changelog, LAMBDA e : e.seq <= s)

\* the entries of log that write, remove or rename node n
Touching(log, n) ==
    {i \in 1..Len(log) :
        /\ log[i].op \in {"node.write", "node.rm", "node.mv", "node.cp"}
        /\ log[i].name = n \/ DataGet(log[i].data, "old_name", Null) = n}

\* the last of a non-empty set of positions
Last(I) == CHOOSE i \in I : \A j \in I : j <= i

\* the nodes that a write had given one type when seq s was issued and that
\* the writes since, and nothing else, have given another type
Retyped(s) ==
    {n \in DOMAIN db.nodes :
        LET before == Touching(Upto(s), n)
            since  == Touching(_changelog, n) \ before
        IN  /\ before # {} /\ since # {}
            /\ _changelog[Last(before)].op = "node.write"
            /\ \A j \in since : _changelog[j].op = "node.write"
            /\ _changelog[Last(since)].data.type
                   # _changelog[Last(before)].data.type}

\* the push, from the start, of the changelog as it was at seq s
Earlier(s) ==
    sync_push(db, changelog_enabled, Upto(s), TenantRemote, Scope(eng), 0)

\* the push of the changelog as it is, from the seq that push returned
Later(s) ==
    sync_push(db, changelog_enabled, _changelog, Earlier(s).conn.remote,
              Scope(eng), Earlier(s).push.last_seq)

\* the rows named name that table type_name holds under scope
RowsIn(R, type_name, scope, name) ==
    CountNamed(R, {type_name} \cap DOMAIN R, scope, name)

\* C31: when a node's type changes from t1 to t2 between two pushes, the
\* second push deletes the node's row from remote table t1 under the scope
\* and upserts it into remote table t2, so that the node has a remote row in
\* exactly one type table.
C31_RetypeMovesRemoteRow ==
    changelog_enabled =>
        \A s \in 1..MaxSeq :
            \A n \in Retyped(s) :
                LET R  == Later(s).conn.remote
                    t1 == _changelog[Last(Touching(Upto(s), n))].data.type
                    t2 == _changelog[Last(Touching(_changelog, n))].data.type
                IN  /\ RowsIn(Earlier(s).conn.remote, t1, Scope(eng), n) = 1
                    /\ RowsIn(R, t1, Scope(eng), n) = 0
                    /\ RowsIn(R, t2, Scope(eng), n) = 1
                    /\ RowsNamed(R, Scope(eng), n) = 1

\* C32: every public operation normalizes the node names it is given,
\* source names included: rm(x), mv(x, y) and cp(x, y) act on the node named
\* normalize(x), so that a node created by write(x, ...) or touch(x) can be
\* removed, renamed or copied by passing the same x.
C32_SourceNamesNormalized ==
    \A x \in RawNames :
        \A made \in {write(db, validator, x, TextLinks),
                     touch(db, validator, x, EmptyText)} :
            made.err = "" =>
                /\ rm(made.db, x) = rm(made.db, slugify(x))
                /\ \A y \in RawNames :
                       /\ mv(made.db, x, y) = mv(made.db, slugify(x), y)
                       /\ cp(made.db, x, y) = cp(made.db, slugify(x), y)

\* dst is an untyped node with an empty body whose only attribute is
\* link_target = src
Symlink(d, dst, src) ==
    /\ exists(d, dst)
    /\ d.nodes[dst] = kaybee
    /\ _read_node_data(d, dst) =
           [content |-> <<>>, meta |-> <<<<LinkTargetKey, StrV(src)>>>>]

\* what each public mutation that is not given dst as the node to write,
\* remove, rename or create returns or raises when called in this state
ResultsBeside(dst) ==
    {write(db, validator, n, t) :
        n \in {x \in RawNames : slugify(x) # dst}, t \in Texts \cup {EmptyText}}
    \cup {touch(db, validator, n, t) :
        n \in {x \in RawNames : slugify(x) # dst}, t \in TouchTexts}
    \cup {rm(db, n) : n \in Names \ {dst}}
    \cup {mv(db, a, b) : a \in Names \ {dst}, b \in {x \in RawNames : slugify(x) # dst}}
    \cup {cp(db, a, b) : a \in Names, b \in {x \in RawNames : slugify(x) # dst}}
    \cup {ln(db, a, b) : a \in LnSources, b \in {x \in RawNames : slugify(x) # dst}}
    \cup {add_type(db, t) : t \in TypeNames}
    \cup {remove_type(db, t) : t \in TypeNames}

\* a successful ln(src, dst) leaves dst a symlink to src
LnMakesSymlink ==
    \A src \in LnSources, dst \in RawNames :
        LET r == ln(db, src, dst)
        IN  r.err = "" => Symlink(r.db, slugify(dst), src)

\* a symlink to src is among the backlinks of src, now and after every
\* call that is not given the symlink to write, remove or rename
SymlinkStaysBacklink ==
    \A src \in LnSources, dst \in DOMAIN db.nodes :
        Symlink(db, dst, src) =>
            /\ dst \in DOMAIN backlinks(db, src)
            /\ \A r \in ResultsBeside(dst) :
                   Symlink(r.db, dst, src) /\ dst \in DOMAIN backlinks(r.db, src)

\* backlinks lists no name twice
BacklinksDistinct ==
    \A name \in Names : \A n \in DOMAIN backlinks(db, name) : backlinks(db, name)[n] = 1

\* C33: after ln(src, dst), dst is an untyped node with an empty body whose
\* only attribute is link_target = src, and backlinks(src) contains dst for
\* as long as dst exists and is not overwritten; backlinks(src) lists no name
\* twice.
C33_LnBacklinks == LnMakesSymlink /\ SymlinkStaysBacklink /\ BacklinksDistinct

\* a call of sync_push that has returned issued one commit, a call that is
\* in its loops or has raised issued none; and so does the call run to its
\* return from any since_seq
OneCommit ==
    /\ push.pc = "returned" => conn.commits = 1
    /\ Running \/ push.pc = "raised" => conn.commits = 0
    /\ \A s \in 0..MaxSeq : First(s).conn.commits = 1

\* a step that commits is the return of the call: no entry above last_seq is
\* left to apply, the remote store takes what the connection executed
CommitIsLast ==
    conn'.commits > conn.commits =>
        /\ conn.commits = 0 /\ conn'.commits = 1
        /\ push'.pc = "returned"
        /\ changelog_enabled =>
               /\ \A e \in Range(_changelog) :
                      e.seq > push.since_seq => e.seq \in Range(push'.applied)
               /\ push'.last_seq =
                      IF push'.applied = <<>> THEN push.since_seq
                      ELSE _changelog[Len(_changelog)].seq
        /\ remote' = conn'.remote

types(d) == Sorted(d.types)

\* the type names a caller registers: a user type and the implicit one
RegisteredNames == TypeNames \cup {kaybee}

\* C35: the implicit type kaybee never appears in the registered type set
\* returned by types() and ls(), after any sequence of writes, touches,
\* add_type and remove_type calls.
C35_KaybeeNotRegistered ==
    /\ kaybee \notin Range(types(db))
    /\ \A t \in RegisteredNames : kaybee \notin Range(types(add_type(db, t).db))

\* every node of d has the implicit type or a registered one
TypesRegistered(d) ==
    \A n \in DOMAIN d.nodes : d.nodes[n] = kaybee \/ d.nodes[n] \in d.types

\* C36: after any sequence of engine mutations, the type of every existing
\* node is either the implicit type or a member of the registered type set:
\* write auto-registers a new type, remove_type refuses while nodes of the
\* type remain, and mv and cp keep the type.
C36_NodeTypesRegistered == TypesRegistered(db)

\* the longest raw name a caller passes
MaxRawLen == 3

\* a lower-case and an upper-case letter, whitespace, the hyphen, and the
\* dot that slugify keeps
SlugChars == {"a", "B", " ", "-", "."}

\* every string of up to MaxRawLen of these characters
RawStrings == UNION {[1..n -> SlugChars] : n \in 0..MaxRawLen}

\* the store holds node a and nothing else
OnlyA == DOMAIN db.nodes = {<<"a">>}

\* kg.write(x, TextUntyped) on the empty store
WriteFresh(x) ==
    LET r == write(db, validator, x, TextUntyped)
    IN  /\ DOMAIN db.nodes = {}
        /\ Return(r)
        /\ Log(r, "node.write", slugify(x), NodeData(r.db, slugify(x)))

\* kg.touch(x) on the empty store
TouchFresh(x) ==
    LET r == touch(db, validator, x, EmptyText)
    IN  /\ DOMAIN db.nodes = {}
        /\ Return(r)
        /\ Log(r, "node.write", slugify(x), NodeData(r.db, slugify(x)))

\* kg.mv("a", x) on the store that holds a alone
MvA(x) ==
    LET r == mv(db, <<"a">>, x)
    IN  /\ OnlyA
        /\ Return(r)
        /\ Log(r, "node.mv", slugify(x), MvData(r.db, <<"a">>, slugify(x)))

\* kg.cp("a", x) on the store that holds a alone
CpA(x) ==
    LET r == cp(db, <<"a">>, x)
    IN  /\ OnlyA
        /\ Return(r)
        /\ Log(r, "node.cp", slugify(x), NodeData(r.db, slugify(x)))

\* kg.ln("a", x) on the store that holds a alone
LnA(x) == OnlyA /\ Return(ln(db, <<"a">>, x)) /\ UNCHANGED logvars

\* a node is written or touched under any raw name into the empty store;
\* node a is renamed to, copied to and linked from any raw name; nodes are
\* removed
NextNames ==
    \/ \E x \in RawStrings : WriteFresh(x)
    \/ \E x \in RawStrings : TouchFresh(x)
    \/ \E x \in RawStrings : MvA(x)
    \/ \E x \in RawStrings : CpA(x)
    \/ \E x \in RawStrings : LnA(x)
    \/ \E n \in DOMAIN db.nodes : Rm(n)

SpecNames == Init /\ [][NextNames]_vars

\* C37: every name stored in the node index is canonical: after any sequence
\* of write, touch, mv, cp and ln, normalize(name) = name holds for every
\* node; and normalize is idempotent, normalize(normalize(x)) = normalize(x)
\* for every x.
C37_NamesCanonical ==
    /\ \A n \in DOMAIN db.nodes : slugify(n) = n
    /\ \A x \in RawStrings : slugify(slugify(x)) = slugify(x)

\* node a was linked from a raw name that is not canonical: the store holds
\* a and the symlink under the normalized name
C37_Witness ==
    /\ exists(db, <<"a">>)
    /\ Symlink(db, <<"b", "-", "a">>, <<"a">>)

\* kg = KnowledgeGraph(); kg.set_validator(v), before anything is stored
InitKept ==
    /\ db = InitDb
    /\ committed = InitDb
    /\ validator = TheValidator
    /\ partial = 0
    /\ changelog_enabled = FALSE
    /\ _changelog = <<>>
    /\ sqlite_sequence = 0
    /\ push = Idle
    /\ conn = Connected(EmptyRemote)
    /\ remote = EmptyRemote

\* every operation that creates or changes a node, and rm; the validator
\* stays attached
NextKept ==
    \/ \E n \in RawNames, t \in Texts : Write(n, t)
    \/ \E n \in RawNames, t \in TouchTexts : Touch(n, t)
    \/ \E n \in Names : Rm(n)
    \/ \E a \in Names, b \in RawNames : Mv(a, b)
    \/ \E a \in Names, b \in RawNames : Cp(a, b)
    \/ \E a \in LnSources, b \in RawNames : Ln(a, b)

SpecKept == InitKept /\ [][NextKept]_vars

\* node n of d satisfies every structural rule whose type filter is null
\* or the type of n
Satisfies(d, rules, n) ==
    \A i \in 1..Len(rules) :
        /\ rules[i].structural
        /\ rules[i].filter = Null \/ rules[i].filter = d.nodes[n]
        => ~Violates(rules[i], n, _read_node_data(d, n).meta)

\* C38: while the same validator stays attached from the creation of the
\* store, every node present in the store satisfies all structural rules
\* matching its type, whichever operation created or last changed it (write,
\* touch with or without content, cp, mv, ln).
C38_NodesSatisfyRules ==
    \A n \in DOMAIN db.nodes : Satisfies(db, validator.rules, n)

====
